---- MODULE Spec2Model ----
(***************************************************************************)
(* Model of the authenticated WebSocket proxy of main.go                   *)
(* (handleVoiceAgent, its two forwarding goroutines, the activeConnections *)
(* registry and gracefulShutdown).                                         *)
(*                                                                         *)
(* A session is one HTTP request to /api/voice-agent; the session id       *)
(* stands for the *websocket.Conn pointer clientConn, which is the key of  *)
(* the registry.  A blocking call is in progress from the step that        *)
(* invokes it to the step at which it returns.                             *)
(***************************************************************************)
EXTENDS Integers, Sequences, FiniteSets, Bags, TLC

\* ------------------------------------------------------------------ bounds

\* total number of data frames the two peers of all sessions deliver
MaxFrames == 2

Sessions == {1, 2}

\* Spec follows the sessions it serves in full detail (every frame, close
\* code and write result); sessions share only activeConnections and
\* gracefulShutdown
Served == {1}

\* ------------------------------------------------------------- constants

CloseNormalClosure == 1000
CloseGoingAway == 1001

reservedCloseCodes == {1004, 1005, 1006, 1015}

TextMessage == 1
BinaryMessage == 2
CloseMessage == 8

\* the close codes a *websocket.CloseError read from upstream may carry
CloseCodes == {999, 1000, 1004, 1005, 1006, 1015, 4999, 5000}

\* the error read from a connection that carries no close code
NoCode == -1

\* the data frames a peer sends: a text frame and a binary frame
Frames == { [typ |-> TextMessage, data |-> "a"],
            [typ |-> BinaryMessage, data |-> "b"] }

appConfig == [sessionSecret |-> "k1"]

VARIABLES
  now,                \* the wall clock (time.Now): its whole hours
  nanos,              \* the wall clock: its part below one second
  jwt,                \* the token string at hand
  issued,             \* the issueToken call that made jwt, if one did
  call,               \* the last validateToken call on jwt
  hpc,                \* hpc[s]: where the handleVoiceAgent invocation of s is
  req,                \* req[s]: the sub-protocols proposed by the request
  validProto,         \* validProto[s]: the handler's local validProto
  respProto,          \* respProto[s]: Sec-WebSocket-Protocol of the response
  branch,             \* branch[s]: the cases the handler's select executed
  apc,                \* apc[s]: where the goroutine Deepgram -> Client is
  aMsg,               \* aMsg[s]: its locals messageType, data and err
  bpc,                \* bpc[s]: where the goroutine Client -> Deepgram is
  bMsg,               \* bMsg[s]: its locals messageType and data
  activeConnections,  \* the keys of the sync.Map
  deletes,            \* deletes[s]: calls of activeConnections.Delete(clientConn)
  clientCloses,       \* clientCloses[s]: calls of clientConn.Close()
  deepgramCloses,     \* deepgramCloses[s]: calls of deepgramConn.Close()
  deepgramIn,         \* deepgramIn[s]: frames deepgramConn.ReadMessage returned
  clientOut,          \* clientOut[s]: the WriteMessage calls on clientConn
  clientIn,           \* clientIn[s]: frames clientConn.ReadMessage returned
  deepgramOut,        \* deepgramOut[s]: the WriteMessage calls on deepgramConn
  nframes,            \* data frames delivered so far
  spc,                \* where gracefulShutdown is
  sConn,              \* the key gracefulShutdown's Range callback is visiting
  visited,            \* the keys Range has visited
  rangeStart,         \* the keys in the map when Range began
  connections,        \* wm.connections: the map of the WebSocketManager
  mutex,              \* wm.mutex: the Broadcast calls that hold its read lock
  calls,              \* the calls a caller of the manager by itself made
  wpc,                \* wpc[c]: where the handleWebSocket invocation of c is
  wsOut,              \* wsOut[c]: the write calls made on the browser
                      \* connection, each with the times it was made
  wsCloses,           \* wsCloses[c]: calls of conn.Close()
  bcpc,               \* bcpc[b]: where the Broadcast call of receiver b is
  bcMsg,              \* bcMsg[b]: its argument message
  bcConn,             \* bcConn[b]: the key its range loop is at
  bcSeen,             \* bcSeen[b]: the keys its range loop has produced
  bcAtCall,           \* bcAtCall[b]: the keys of the map when it was called
  nbroadcasts,        \* Broadcast calls made so far
  fatal,              \* the Go runtime has ended the process
  chClosed,           \* chClosed[ch]: the channel has been closed
  sending,            \* sending[ch]: a sender is blocked in ch <- v
  rpc,                \* rpc[ch]: where the receiver Run started for ch is
  runpc               \* where MyHandler.Run is

vars == << now, nanos, jwt, issued, call,
           hpc, req, validProto, respProto, branch, apc, aMsg, bpc, bMsg,
           activeConnections, deletes, clientCloses, deepgramCloses,
           deepgramIn, clientOut, clientIn, deepgramOut, nframes,
           spc, sConn, visited, rangeStart,
           connections, mutex, calls, wpc, wsOut, wsCloses,
           bcpc, bcMsg, bcConn, bcSeen, bcAtCall, nbroadcasts, fatal,
           chClosed, sending, rpc, runpc >>

\* ------------------------------------------------------------ session auth

\* the unit of time is jwtExpiry (one hour)
jwtExpiry == 1

\* the clock runs from 0 to MaxTime
MaxTime == 1

\* below the second the clock runs from 0 to MaxNanos
MaxNanos == 1

\* the secrets a token is signed or checked with
Secrets == {"k1", "k2"}

\* A token string is named by what jwt.Parse finds in it: whether it parses,
\* the algorithm of its header, the key it was signed with and its exp claim.
Token(w, a, k, e) == [wf |-> w, alg |-> a, key |-> k, exp |-> e]

\* issued at time 0 with the server's secret
GoodToken == Token(TRUE, "HS256", "k1", 0 + jwtExpiry)
\* issued one hour before time 0
ExpiredToken == Token(TRUE, "HS256", "k1", 0)
\* signed with another secret
ForgedToken == Token(TRUE, "HS256", "k2", 0 + jwtExpiry)

\* a proposed sub-protocol: "access_token.<tok>" when prefix, else "<tok>"
Proto(p, t) == [prefix |-> p, tok |-> t]

\* the empty string
EmptyProto == Proto(FALSE, Token(FALSE, "", "", 0))

\* the Sec-WebSocket-Protocol lists a request may carry
ProtocolLists ==
  { << >>,
    << Proto(FALSE, GoodToken) >>,
    << Proto(TRUE, ExpiredToken) >>,
    << Proto(TRUE, ForgedToken) >>,
    << Proto(TRUE, GoodToken) >>,
    << Proto(TRUE, ForgedToken), Proto(TRUE, GoodToken) >> }

\* the token strings a caller may hand to validateToken: well-formed
\* tokens of every algorithm, key and expiry, and a string cut short
TokenStrings ==
  { Token(TRUE, a, k, e) :
      a \in {"HS256", "HS384", "RS256", "none"},
      k \in Secrets, e \in 0 .. MaxTime + 1 }
    \cup { Token(FALSE, "HS256", "k1", MaxTime + 1) }

\* no token string
NoToken == Token(FALSE, "", "", 0)

\* jwt.NewNumericDate of the time h hours and n below the second: the time
\* truncated to whole seconds
NewNumericDate(h, n) == h

\* t1 = <<hours, part below the second>> is before t2
Before(t1, t2) == t1[1] < t2[1] \/ (t1[1] = t2[1] /\ t1[2] < t2[2])

\* issueToken with ExpiresAt made of time.Now() without Add(jwtExpiry)
issueTokenExpired(secret) ==
  Token(TRUE, "HS256", secret, NewNumericDate(now, nanos))

\* the token string issueToken returns
issueToken(secret) ==
  Token(TRUE, "HS256", secret, NewNumericDate(now + jwtExpiry, nanos))

SigningMethodHMAC == {"HS256", "HS384", "HS512"}

\* the algorithms jwt.Parse finds a signing method for
SigningMethods == SigningMethodHMAC \cup {"RS256", "none"}

\* the keyfunc returned (nil, error)
NoKey == ""

\* the keyfunc without the test of line 695
keyFuncUnchecked(token, secret) == secret

\* lines 694-699: the keyfunc validateToken gives to jwt.Parse
keyFunc(token, secret) ==
  IF token.alg \in SigningMethodHMAC THEN secret ELSE NoKey

\* the key jwt.Parse hands to token.Method.Verify: the keyfunc is called
\* once the string has parsed and its alg names a signing method
KeyHanded(tokenStr, secret) ==
  IF tokenStr.wf /\ tokenStr.alg \in SigningMethods
  THEN keyFunc(tokenStr, secret)
  ELSE NoKey

\* token.Method.Verify with a []byte key: an HMAC method compares the
\* signature with the one the key makes, the other methods refuse the key
Verify(tokenStr, key) ==
  /\ tokenStr.alg \in SigningMethodHMAC
  /\ tokenStr.key = key

\* validateToken without the check of exp
validateTokenNoExpiry(tokenStr, secret) ==
  LET key == KeyHanded(tokenStr, secret) IN
    /\ key # NoKey
    /\ Verify(tokenStr, key)

\* TRUE iff validateToken returns nil
validateToken(tokenStr, secret) ==
  LET key == KeyHanded(tokenStr, secret) IN
    /\ key # NoKey
    /\ Verify(tokenStr, key)
    /\ now < tokenStr.exp

\* validateWsToken without the checks of lines 707 and 709
validateWsTokenUnchecked(protocols, secret) ==
  IF protocols = << >> THEN EmptyProto ELSE Head(protocols)

\* validateWsToken returning at the first proposed sub-protocol that has
\* the prefix, whether its token validates or not
validateWsTokenFirstOnly(protocols, secret) ==
  LET prefixed == {i \in DOMAIN protocols : protocols[i].prefix} IN
    IF prefixed = {} THEN EmptyProto
    ELSE LET proto == protocols[CHOOSE i \in prefixed :
                                  \A j \in prefixed : i <= j] IN
         IF validateToken(proto.tok, secret) THEN proto ELSE EmptyProto

RECURSIVE validateWsToken(_, _)
validateWsToken(protocols, secret) ==
  IF protocols = << >> THEN EmptyProto
  ELSE LET proto == Head(protocols) IN
       IF proto.prefix /\ validateToken(proto.tok, secret)
       THEN proto
       ELSE validateWsToken(Tail(protocols), secret)

\* --------------------------------------------------------- websocket helpers

\* getSafeCloseCode without the test of line 733
getSafeCloseCodeIdentity(code) == code

getSafeCloseCode(code) ==
  IF code >= 1000 /\ code <= 4999 /\ code \notin reservedCloseCodes
  THEN code
  ELSE CloseNormalClosure

\* what ReadMessage returned to a forwarding goroutine: messageType, data
\* and, when it failed, the close code of err (NoCode: err is no CloseError)
Msg(messageType, data, err) == [typ |-> messageType, data |-> data, err |-> err]
NoMsg == Msg(0, "", 0)

\* one WriteMessage call: who called, the message type, the payload (the
\* reason of a close frame) and the close code (0 in a data frame)
Write(by, mt, data, code) ==
  [by |-> by, mt |-> mt, data |-> data, code |-> code]

\* websocket.FormatCloseMessage(closeCode, text) written as a close frame
CloseFrame(by, closeCode, text) == Write(by, CloseMessage, text, closeCode)

\* the results a WriteMessage call on a connection may return: a closed
\* connection fails every write, an open one may fail (peer gone) or not
WriteResults(closes) == IF closes > 0 THEN {FALSE} ELSE {TRUE, FALSE}

\* the done channels: closed by the deferred close when the goroutine returns
clientDone(s) == bpc[s] = "done"
deepgramDone(s) == apc[s] = "done"

\* an issueToken call: its secret and time.Now()
Issue(secret, h, n) == [secret |-> secret, at |-> h, frac |-> n]
NoIssue == Issue("", 0, 0)

\* a validateToken call: its secret, the time, whether it returned an
\* error, and the key token.Method.Verify was handed
Call(made, secret, h, n, err, key) ==
  [made |-> made, secret |-> secret, at |-> h, frac |-> n,
   err |-> err, key |-> key]
NoCall == Call(FALSE, "", 0, 0, FALSE, NoKey)

\* -------------------------------------------------------- WebSocketManager

\* the browser connections (*websocket.Conn) that reach /socket.io/
Conns == {1, 2}

\* the receivers of MyHandler.Run that call Broadcast, each in its goroutine
Receivers == {"binaryChan", "conversationTextResponse"}

\* Broadcast calls in a run
MaxBroadcasts == 2

\* AddConnection and RemoveConnection calls made on a manager by itself
MaxCalls == 4

\* lines 37-39: the map of a new manager has no key
NewWebSocketManager == [conn \in {} |-> TRUE]

\* the value Broadcast is handed (an interface{}): the keys the envelopes
\* of MyHandler.Run carry, and whether encoding/json can encode the value
Message(type, audio, role, content, encodable) ==
  [type |-> type, audio |-> audio, role |-> role, content |-> content,
   encodable |-> encodable]
NoMessage == Message("", "", "", "", TRUE)

\* lines 216-219, lines 305-309, and a value json.Marshal refuses (a channel)
Messages ==
  { Message("agent_speaking", "b", "", "", TRUE),
    Message("conversation_text", "", "user", "a", TRUE),
    Message("chan", "", "", "", FALSE) }

\* what a receiver hands to Broadcast: its envelope; a value without an
\* encoding stands with the receiver of the binary channel
MessagesOf(b) ==
  IF b = "binaryChan"
  THEN {m \in Messages : m.type # "conversation_text"}
  ELSE {m \in Messages : m.type = "conversation_text"}

\* encoding/json writes a []byte as its base64 text
Base64(bytes) == IF bytes = "b" THEN "Yg==" ELSE ""

\* json.Marshal of the message: an object with its keys in sorted order,
\* or an error
jsonMarshal(message) ==
  IF ~message.encodable
  THEN [err |-> TRUE, data |-> ""]
  ELSE IF message.audio # ""
  THEN [err |-> FALSE,
        data |-> "{\"audio\":\"" \o Base64(message.audio)
                   \o "\",\"type\":\"" \o message.type \o "\"}"]
  ELSE [err |-> FALSE,
        data |-> "{\"content\":\"" \o message.content
                   \o "\",\"role\":\"" \o message.role
                   \o "\",\"type\":\"" \o message.type \o "\"}"]

\* lines 453-456: what conn.WriteJSON encodes, the object and a newline
connectedMsg ==
  "{\"message\":\"Connected to Voice Agent\",\"type\":\"connected\"}\n"

\* --------------------------------------------------------------- MyHandler

\* lines 76-90: the channels of a MyHandler, each handed out by a getter
Channels ==
  { "binaryChan", "openChan", "welcomeResponse", "conversationTextResponse",
    "userStartedSpeakingResponse", "agentThinkingResponse",
    "functionCallRequestResponse", "agentStartedSpeakingResponse",
    "agentAudioDoneResponse", "closeChan", "errorChan", "unhandledChan",
    "injectionRefusedResponse", "keepAliveResponse",
    "settingsAppliedResponse" }

\* lines 203-417: the channels a goroutine of Run ranges over
Ranged ==
  { "binaryChan", "openChan", "welcomeResponse", "conversationTextResponse",
    "userStartedSpeakingResponse", "agentThinkingResponse",
    "functionCallRequestResponse", "agentStartedSpeakingResponse",
    "agentAudioDoneResponse", "keepAliveResponse",
    "settingsAppliedResponse", "closeChan", "errorChan", "unhandledChan" }

\* The channels followed step by step: the one no goroutine ranges over,
\* and one channel for every loop body of Run (the two that broadcast,
\* the bare Printf of openChan, the field prints of errorChan and of
\* unhandledChan).  The nine receivers not followed are the loop of
\* openChan over another channel.
Followed ==
  { "binaryChan", "conversationTextResponse", "openChan", "errorChan",
    "unhandledChan", "injectionRefusedResponse" }

\* ------------------------------------------------------------------- state

Init ==
  /\ now = 0
  /\ nanos = 0
  /\ jwt = NoToken
  /\ issued = NoIssue
  /\ call = NoCall
  /\ hpc = [s \in Sessions |-> "idle"]
  /\ req = [s \in Sessions |-> << >>]
  /\ validProto = [s \in Sessions |-> EmptyProto]
  /\ respProto = [s \in Sessions |-> EmptyProto]
  /\ branch = [s \in Sessions |-> {}]
  /\ apc = [s \in Sessions |-> "off"]
  /\ aMsg = [s \in Sessions |-> NoMsg]
  /\ bpc = [s \in Sessions |-> "off"]
  /\ bMsg = [s \in Sessions |-> NoMsg]
  /\ activeConnections = {}
  /\ deletes = [s \in Sessions |-> 0]
  /\ clientCloses = [s \in Sessions |-> 0]
  /\ deepgramCloses = [s \in Sessions |-> 0]
  /\ deepgramIn = [s \in Sessions |-> << >>]
  /\ clientOut = [s \in Sessions |-> << >>]
  /\ clientIn = [s \in Sessions |-> << >>]
  /\ deepgramOut = [s \in Sessions |-> << >>]
  /\ nframes = 0
  /\ spc = "idle"
  /\ sConn = 0
  /\ visited = {}
  /\ rangeStart = {}
  /\ connections = NewWebSocketManager
  /\ mutex = {}
  /\ calls = << >>
  /\ wpc = [c \in Conns |-> "idle"]
  /\ wsOut = [c \in Conns |-> EmptyBag]
  /\ wsCloses = [c \in Conns |-> 0]
  /\ bcpc = [b \in Receivers |-> "idle"]
  /\ bcMsg = [b \in Receivers |-> NoMessage]
  /\ bcConn = [b \in Receivers |-> 0]
  /\ bcSeen = [b \in Receivers |-> {}]
  /\ bcAtCall = [b \in Receivers |-> {}]
  /\ nbroadcasts = 0
  /\ fatal = FALSE
  /\ chClosed = [ch \in Followed |-> FALSE]
  /\ sending = [ch \in Followed |-> FALSE]
  /\ rpc = [ch \in Followed |-> IF ch \in Ranged THEN "recv" ELSE "none"]
  /\ runpc = "wait"

clockVars == << now, nanos >>
runVars == << chClosed, sending, rpc, runpc >>
managerVars == << connections, mutex, calls, wpc, wsOut, wsCloses,
                 bcpc, bcMsg, bcConn, bcSeen, bcAtCall, nbroadcasts, fatal >>
tokenVars == << jwt, issued, call >>
handlerVars == << hpc, req, validProto, respProto, branch >>
loopAVars == << apc, aMsg, deepgramIn >>
loopBVars == << bpc, bMsg, clientIn >>
registryVars == << activeConnections, deletes >>
connVars == << clientCloses, deepgramCloses >>
shutdownVars == << spc, sConn, visited, rangeStart >>

\* ------------------------------------------------------------------- clock

\* the clock reaches the next whole hour
Tick ==
  /\ now < MaxTime
  /\ now' = now + 1
  /\ nanos' = 0
  /\ UNCHANGED << tokenVars, managerVars, runVars, handlerVars, loopAVars,
                  loopBVars, registryVars, connVars, clientOut, deepgramOut,
                  nframes, shutdownVars >>

\* a part of a second passes
SubTick ==
  /\ nanos < MaxNanos
  /\ nanos' = nanos + 1
  /\ UNCHANGED << now, tokenVars, managerVars, runVars, handlerVars, loopAVars,
                  loopBVars, registryVars, connVars, clientOut, deepgramOut,
                  nframes, shutdownVars >>

\* ------------------------------------------------------------ token service

proxyVars == << handlerVars, loopAVars, loopBVars, registryVars, connVars,
                clientOut, deepgramOut, nframes, shutdownVars >>

\* lines 683-690: issueToken(secret) returns a token string
IssueToken(secret) ==
  /\ jwt' = issueToken(secret)
  /\ issued' = Issue(secret, now, nanos)
  /\ call' = NoCall
  /\ UNCHANGED << clockVars, managerVars, runVars, proxyVars >>

\* a caller comes with a token string of its own
Receive(tokenStr) ==
  /\ jwt' = tokenStr
  /\ issued' = NoIssue
  /\ call' = NoCall
  /\ UNCHANGED << clockVars, managerVars, runVars, proxyVars >>

\* lines 693-701: validateToken(jwt, secret) returns
ValidateToken(secret) ==
  /\ jwt # NoToken
  /\ call' = Call(TRUE, secret, now, nanos,
                  ~validateToken(jwt, secret), KeyHanded(jwt, secret))
  /\ UNCHANGED << jwt, issued, clockVars, managerVars, runVars, proxyVars >>

\* ------------------------------------------------- handleVoiceAgent: upgrade

\* the server hands a request for /api/voice-agent to handleVoiceAgent
\* (sessions are named in the order of their requests)
Request(s, protocols) ==
  /\ hpc[s] = "idle"
  /\ \A o \in Sessions : o < s => hpc[o] # "idle"
  /\ spc # "done"
  /\ hpc' = [hpc EXCEPT ![s] = "auth"]
  /\ req' = [req EXCEPT ![s] = protocols]
  /\ UNCHANGED << clockVars, tokenVars, managerVars, runVars, validProto,
                  respProto, branch, loopAVars, loopBVars, registryVars,
                  connVars, clientOut, deepgramOut, nframes, shutdownVars >>

\* lines 814-820 refusing a token that another request was let in with
AuthenticateSingleUse(s) ==
  /\ hpc[s] = "auth"
  /\ LET accepted == validateWsToken(req[s], appConfig.sessionSecret)
         used == \E o \in Sessions \ {s} :
                   /\ validProto[o] # EmptyProto
                   /\ validProto[o].tok = accepted.tok
         vp == IF used THEN EmptyProto ELSE accepted IN
       /\ validProto' = [validProto EXCEPT ![s] = vp]
       /\ hpc' = [hpc EXCEPT ![s] = IF vp = EmptyProto THEN "unauthorized"
                                                       ELSE "upgrade"]
  /\ UNCHANGED << clockVars, tokenVars, managerVars, runVars, req, respProto,
                  branch, loopAVars, loopBVars, registryVars, connVars,
                  clientOut, deepgramOut, nframes, shutdownVars >>

\* lines 814-820: validateWsToken, and 401 when it returns ""
Authenticate(s) ==
  /\ hpc[s] = "auth"
  /\ LET vp == validateWsToken(req[s], appConfig.sessionSecret) IN
       /\ validProto' = [validProto EXCEPT ![s] = vp]
       /\ hpc' = [hpc EXCEPT ![s] = IF vp = EmptyProto THEN "unauthorized"
                                                       ELSE "upgrade"]
  /\ UNCHANGED << clockVars, tokenVars, managerVars, runVars, req, respProto,
                  branch, loopAVars, loopBVars, registryVars, connVars,
                  clientOut, deepgramOut, nframes, shutdownVars >>

\* lines 823-824 with the token of validProto, its prefix stripped, as the
\* header's value
responseHeaderToken(proto) == Proto(FALSE, proto.tok)

\* lines 823-824: the Sec-WebSocket-Protocol value of responseHeader
responseHeader(proto) == proto

\* lines 823-830: upgrader.Upgrade(w, r, responseHeader); the upgrader has
\* no Subprotocols of its own, so the 101 response carries the
\* Sec-WebSocket-Protocol of responseHeader; a failed handshake is answered
\* with an HTTP error without it. The request is not read after this call.
Upgrade(s, ok) ==
  /\ hpc[s] = "upgrade"
  /\ hpc' = [hpc EXCEPT ![s] = IF ok THEN "store" ELSE "upgradeFailed"]
  /\ respProto' = [respProto EXCEPT ![s] =
        IF ok THEN responseHeader(validProto[s]) ELSE @]
  /\ req' = [req EXCEPT ![s] = << >>]
  /\ UNCHANGED << clockVars, tokenVars, managerVars, runVars, validProto,
                  branch, loopAVars, loopBVars, registryVars, connVars,
                  clientOut, deepgramOut, nframes, shutdownVars >>

\* line 833: activeConnections.Store(clientConn, true)
Store(s) ==
  /\ hpc[s] = "store"
  /\ activeConnections' = activeConnections \cup {s}
  /\ hpc' = [hpc EXCEPT ![s] = "dial"]
  /\ UNCHANGED << clockVars, tokenVars, managerVars, runVars, req, validProto,
                  respProto, branch, loopAVars, loopBVars, deletes, connVars,
                  clientOut, deepgramOut, nframes, shutdownVars >>

\* lines 841-859, 862, 889: the dial succeeds and both goroutines start
DialOk(s) ==
  /\ hpc[s] = "dial"
  /\ hpc' = [hpc EXCEPT ![s] = "select"]
  /\ apc' = [apc EXCEPT ![s] = "read"]
  /\ bpc' = [bpc EXCEPT ![s] = "read"]
  /\ UNCHANGED << clockVars, tokenVars, managerVars, runVars, req, validProto,
                  respProto, branch, aMsg, deepgramIn, bMsg, clientIn,
                  registryVars, connVars, clientOut, deepgramOut, nframes,
                  shutdownVars >>

\* lines 842-849: the dial fails and the error frame is being written
DialFail(s) ==
  /\ hpc[s] = "dial"
  /\ hpc' = [hpc EXCEPT ![s] = "errWrite"]
  /\ UNCHANGED << clockVars, tokenVars, managerVars, runVars, req, validProto,
                  respProto, branch, loopAVars, loopBVars, registryVars,
                  connVars, clientOut, deepgramOut, nframes, shutdownVars >>

\* json.Marshal of a map[string]string with these three keys: an object
\* with the keys in sorted order
Marshal(m) ==
  "{\"code\":\"" \o m.code \o "\",\"description\":\"" \o m.description
    \o "\",\"type\":\"" \o m.type \o "\"}"

\* lines 844-848: the error envelope
errMsg ==
  Marshal([type |-> "Error",
           description |-> "Failed to establish proxy connection",
           code |-> "CONNECTION_FAILED"])

\* line 849 with websocket.BinaryMessage in place of websocket.TextMessage
ErrWriteEndBinary(s, ok) ==
  /\ hpc[s] = "errWrite"
  /\ ok \in WriteResults(clientCloses[s])
  /\ clientOut' = [clientOut EXCEPT ![s] =
        Append(@, Write("handler", BinaryMessage, errMsg, 0))]
  /\ hpc' = [hpc EXCEPT ![s] = "errClose"]
  /\ UNCHANGED << clockVars, tokenVars, managerVars, runVars, req, validProto,
                  respProto, branch, loopAVars, loopBVars, registryVars,
                  connVars, deepgramOut, nframes, shutdownVars >>

\* line 849: clientConn.WriteMessage(websocket.TextMessage, errMsg) returns
ErrWriteEnd(s, ok) ==
  /\ hpc[s] = "errWrite"
  /\ ok \in WriteResults(clientCloses[s])
  /\ clientOut' = [clientOut EXCEPT ![s] =
        Append(@, Write("handler", TextMessage, errMsg, 0))]
  /\ hpc' = [hpc EXCEPT ![s] = "errClose"]
  /\ UNCHANGED << clockVars, tokenVars, managerVars, runVars, req, validProto,
                  respProto, branch, loopAVars, loopBVars, registryVars,
                  connVars, deepgramOut, nframes, shutdownVars >>

\* line 850: clientConn.Close()
ErrClose(s) ==
  /\ hpc[s] = "errClose"
  /\ clientCloses' = [clientCloses EXCEPT ![s] = @ + 1]
  /\ hpc' = [hpc EXCEPT ![s] = "errDelete"]
  /\ UNCHANGED << clockVars, tokenVars, managerVars, runVars, req, validProto,
                  respProto, branch, loopAVars, loopBVars, registryVars,
                  deepgramCloses, clientOut, deepgramOut, nframes,
                  shutdownVars >>

\* lines 851-852: activeConnections.Delete(clientConn); return
\* lines 851-852 without the call of line 851: the handler returns and
\* the entry stays
ErrDeleteForgotten(s) ==
  /\ hpc[s] = "errDelete"
  /\ hpc' = [hpc EXCEPT ![s] = "returned"]
  /\ UNCHANGED << clockVars, tokenVars, managerVars, runVars, req, validProto,
                  respProto, branch, loopAVars, loopBVars, registryVars,
                  connVars, clientOut, deepgramOut, nframes, shutdownVars >>

ErrDelete(s) ==
  /\ hpc[s] = "errDelete"
  /\ activeConnections' = activeConnections \ {s}
  /\ deletes' = [deletes EXCEPT ![s] = @ + 1]
  /\ hpc' = [hpc EXCEPT ![s] = "returned"]
  /\ UNCHANGED << clockVars, tokenVars, managerVars, runVars, req, validProto,
                  respProto, branch, loopAVars, loopBVars, connVars, clientOut,
                  deepgramOut, nframes, shutdownVars >>

\* ------------------------------------------ goroutine Deepgram -> Client

\* the read of line 865 on a connection whose session is cut when its
\* token is no longer valid
LoopAReadWhileValid(s, f) ==
  /\ apc[s] = "read"
  /\ deepgramCloses[s] = 0
  /\ validateToken(validProto[s].tok, appConfig.sessionSecret)
  /\ nframes < MaxFrames
  /\ nframes' = nframes + 1
  /\ deepgramIn' = [deepgramIn EXCEPT ![s] = Append(@, f)]
  /\ aMsg' = [aMsg EXCEPT ![s] = Msg(f.typ, f.data, 0)]
  /\ apc' = [apc EXCEPT ![s] = "write"]
  /\ UNCHANGED << clockVars, tokenVars, managerVars, runVars, handlerVars,
                  loopBVars, registryVars, connVars, clientOut, deepgramOut,
                  shutdownVars >>

\* line 865: deepgramConn.ReadMessage returns a data frame, and line 881
\* calls clientConn.WriteMessage(messageType, data)
LoopARead(s, f) ==
  /\ apc[s] = "read"
  /\ deepgramCloses[s] = 0
  /\ nframes < MaxFrames
  /\ nframes' = nframes + 1
  /\ deepgramIn' = [deepgramIn EXCEPT ![s] = Append(@, f)]
  /\ aMsg' = [aMsg EXCEPT ![s] = Msg(f.typ, f.data, 0)]
  /\ apc' = [apc EXCEPT ![s] = "write"]
  /\ UNCHANGED << clockVars, tokenVars, managerVars, runVars, handlerVars,
                  loopBVars, registryVars, connVars, clientOut, deepgramOut,
                  shutdownVars >>

\* line 865: ReadMessage on the open connection returns an error: a
\* *websocket.CloseError carrying code, or (NoCode) any other error
LoopAReadErr(s, code) ==
  /\ apc[s] = "read"
  /\ deepgramCloses[s] = 0
  /\ aMsg' = [aMsg EXCEPT ![s] = Msg(0, "", code)]
  /\ apc' = [apc EXCEPT ![s] = "closeWrite"]
  /\ UNCHANGED << clockVars, tokenVars, managerVars, runVars, handlerVars,
                  deepgramIn, loopBVars, registryVars, connVars, clientOut,
                  deepgramOut, nframes, shutdownVars >>

\* line 865: ReadMessage on the connection the handler has closed fails
\* with an error that is no *websocket.CloseError
LoopAReadClosed(s) ==
  /\ apc[s] = "read"
  /\ deepgramCloses[s] > 0
  /\ aMsg' = [aMsg EXCEPT ![s] = Msg(0, "", NoCode)]
  /\ apc' = [apc EXCEPT ![s] = "closeWrite"]
  /\ UNCHANGED << clockVars, tokenVars, managerVars, runVars, handlerVars,
                  deepgramIn, loopBVars, registryVars, connVars, clientOut,
                  deepgramOut, nframes, shutdownVars >>

\* lines 873-876 with ce.Code itself in place of getSafeCloseCode(ce.Code)
LoopACloseCodeUnsafe(err) ==
  IF err = NoCode THEN CloseNormalClosure ELSE err

\* lines 873-876 without the assignment of line 875
LoopACloseCodeAlwaysNormal(err) == CloseNormalClosure

\* lines 873-876: the close code Loop A forwards for the error it read
LoopACloseCode(err) ==
  IF err = NoCode THEN CloseNormalClosure ELSE getSafeCloseCode(err)

\* lines 877-879 with the close frame written twice
LoopACloseWriteEndTwice(s, ok) ==
  /\ apc[s] = "closeWrite"
  /\ ok \in WriteResults(clientCloses[s])
  /\ clientOut' = [clientOut EXCEPT ![s] =
        Append(Append(@, CloseFrame("loopA", LoopACloseCode(aMsg[s].err), "")),
               CloseFrame("loopA", LoopACloseCode(aMsg[s].err), ""))]
  /\ aMsg' = [aMsg EXCEPT ![s] = NoMsg]
  /\ apc' = [apc EXCEPT ![s] = "done"]
  /\ UNCHANGED << clockVars, tokenVars, managerVars, runVars, handlerVars,
                  deepgramIn, loopBVars, registryVars, connVars, deepgramOut,
                  nframes, shutdownVars >>

\* lines 877-879: the close frame is written and the goroutine returns
LoopACloseWriteEnd(s, ok) ==
  /\ apc[s] = "closeWrite"
  /\ ok \in WriteResults(clientCloses[s])
  /\ clientOut' = [clientOut EXCEPT ![s] =
        Append(@, CloseFrame("loopA", LoopACloseCode(aMsg[s].err), ""))]
  /\ aMsg' = [aMsg EXCEPT ![s] = NoMsg]
  /\ apc' = [apc EXCEPT ![s] = "done"]
  /\ UNCHANGED << clockVars, tokenVars, managerVars, runVars, handlerVars,
                  deepgramIn, loopBVars, registryVars, connVars, deepgramOut,
                  nframes, shutdownVars >>

\* line 881 with websocket.TextMessage in place of messageType
LoopAWriteArgsAsText(messageType, data) ==
  [typ |-> TextMessage, data |-> data]

\* line 881: the arguments of clientConn.WriteMessage(messageType, data)
LoopAWriteArgs(messageType, data) == [typ |-> messageType, data |-> data]

\* lines 881-884 without the call of WriteMessage: the frame is dropped
LoopAWriteEndDropped(s, ok) ==
  /\ apc[s] = "write"
  /\ ok \in WriteResults(clientCloses[s])
  /\ aMsg' = [aMsg EXCEPT ![s] = NoMsg]
  /\ apc' = [apc EXCEPT ![s] = IF ok THEN "read" ELSE "done"]
  /\ UNCHANGED << clockVars, tokenVars, managerVars, runVars, handlerVars,
                  deepgramIn, loopBVars, registryVars, connVars, clientOut,
                  deepgramOut, nframes, shutdownVars >>

\* lines 881-884 without the return of line 883: the loop goes on reading
\* whatever the write returned
LoopAWriteEndContinue(s, ok) ==
  /\ apc[s] = "write"
  /\ ok \in WriteResults(clientCloses[s])
  /\ clientOut' = [clientOut EXCEPT ![s] =
        LET args == LoopAWriteArgs(aMsg[s].typ, aMsg[s].data)
        IN Append(@, Write("loopA", args.typ, args.data, 0))]
  /\ aMsg' = [aMsg EXCEPT ![s] = NoMsg]
  /\ apc' = [apc EXCEPT ![s] = "read"]
  /\ UNCHANGED << clockVars, tokenVars, managerVars, runVars, handlerVars,
                  deepgramIn, loopBVars, registryVars, connVars, deepgramOut,
                  nframes, shutdownVars >>

\* lines 881-884: clientConn.WriteMessage(messageType, data) returns
LoopAWriteEnd(s, ok) ==
  /\ apc[s] = "write"
  /\ ok \in WriteResults(clientCloses[s])
  /\ clientOut' = [clientOut EXCEPT ![s] =
        LET args == LoopAWriteArgs(aMsg[s].typ, aMsg[s].data)
        IN Append(@, Write("loopA", args.typ, args.data, 0))]
  /\ aMsg' = [aMsg EXCEPT ![s] = NoMsg]
  /\ apc' = [apc EXCEPT ![s] = IF ok THEN "read" ELSE "done"]
  /\ UNCHANGED << clockVars, tokenVars, managerVars, runVars, handlerVars,
                  deepgramIn, loopBVars, registryVars, connVars, deepgramOut,
                  nframes, shutdownVars >>

\* ------------------------------------------ goroutine Client -> Deepgram

\* line 892: clientConn.ReadMessage returns a data frame, and line 901
\* calls deepgramConn.WriteMessage(messageType, data)
LoopBRead(s, f) ==
  /\ bpc[s] = "read"
  /\ clientCloses[s] = 0
  /\ nframes < MaxFrames
  /\ nframes' = nframes + 1
  /\ clientIn' = [clientIn EXCEPT ![s] = Append(@, f)]
  /\ bMsg' = [bMsg EXCEPT ![s] = Msg(f.typ, f.data, 0)]
  /\ bpc' = [bpc EXCEPT ![s] = "write"]
  /\ UNCHANGED << clockVars, tokenVars, managerVars, runVars, handlerVars,
                  loopAVars, registryVars, connVars, clientOut, deepgramOut,
                  shutdownVars >>

\* lines 893-899 with the client's close forwarded to upstream as a close
\* frame with code 1001 before the return
LoopBReadErrForwarded(s) ==
  /\ bpc[s] = "read"
  /\ clientCloses[s] = 0
  /\ deepgramOut' = [deepgramOut EXCEPT ![s] =
        Append(@, CloseFrame("loopB", CloseGoingAway, ""))]
  /\ bpc' = [bpc EXCEPT ![s] = "done"]
  /\ UNCHANGED << clockVars, tokenVars, managerVars, runVars, handlerVars,
                  loopAVars, bMsg, clientIn, registryVars, connVars, clientOut,
                  nframes, shutdownVars >>

\* lines 893-899: ReadMessage on the open connection returns an error
LoopBReadErr(s) ==
  /\ bpc[s] = "read"
  /\ clientCloses[s] = 0
  /\ bpc' = [bpc EXCEPT ![s] = "done"]
  /\ UNCHANGED << clockVars, tokenVars, managerVars, runVars, handlerVars,
                  loopAVars, bMsg, clientIn, registryVars, connVars, clientOut,
                  deepgramOut, nframes, shutdownVars >>

\* lines 893-899: ReadMessage on the closed connection fails
LoopBReadClosed(s) ==
  /\ bpc[s] = "read"
  /\ clientCloses[s] > 0
  /\ bpc' = [bpc EXCEPT ![s] = "done"]
  /\ UNCHANGED << clockVars, tokenVars, managerVars, runVars, handlerVars,
                  loopAVars, bMsg, clientIn, registryVars, connVars, clientOut,
                  deepgramOut, nframes, shutdownVars >>

\* lines 901-904 with the frame written twice
LoopBWriteEndTwice(s, ok) ==
  /\ bpc[s] = "write"
  /\ ok \in WriteResults(deepgramCloses[s])
  /\ deepgramOut' = [deepgramOut EXCEPT ![s] =
        LET w == Write("loopB", bMsg[s].typ, bMsg[s].data, 0)
        IN Append(Append(@, w), w)]
  /\ bMsg' = [bMsg EXCEPT ![s] = NoMsg]
  /\ bpc' = [bpc EXCEPT ![s] = IF ok THEN "read" ELSE "done"]
  /\ UNCHANGED << clockVars, tokenVars, managerVars, runVars, handlerVars,
                  loopAVars, clientIn, registryVars, connVars, clientOut,
                  nframes, shutdownVars >>

\* line 901: the arguments of deepgramConn.WriteMessage(messageType, data)
LoopBWriteArgs(messageType, data) == [typ |-> messageType, data |-> data]

\* lines 901-904: deepgramConn.WriteMessage(messageType, data) returns
LoopBWriteEnd(s, ok) ==
  /\ bpc[s] = "write"
  /\ ok \in WriteResults(deepgramCloses[s])
  /\ deepgramOut' = [deepgramOut EXCEPT ![s] =
        LET args == LoopBWriteArgs(bMsg[s].typ, bMsg[s].data)
        IN Append(@, Write("loopB", args.typ, args.data, 0))]
  /\ bMsg' = [bMsg EXCEPT ![s] = NoMsg]
  /\ bpc' = [bpc EXCEPT ![s] = IF ok THEN "read" ELSE "done"]
  /\ UNCHANGED << clockVars, tokenVars, managerVars, runVars, handlerVars,
                  loopAVars, clientIn, registryVars, connVars, clientOut,
                  nframes, shutdownVars >>

\* ----------------------------------------------- handleVoiceAgent: teardown

\* a select that does not wait: both cases count as ready at any time
ReadyCasesAll(s) == {"clientDone", "deepgramDone"}

\* the cases of the select of line 909 that are ready
ReadyCases(s) ==
  {c \in {"clientDone", "deepgramDone"} :
     \/ c = "clientDone" /\ clientDone(s)
     \/ c = "deepgramDone" /\ deepgramDone(s)}

\* lines 909-912, 915-916: the select executes one ready case; in the case
\* clientDone the close frame for Deepgram is being written
Select(s, c) ==
  /\ hpc[s] = "select"
  /\ c \in ReadyCases(s)
  /\ branch' = [branch EXCEPT ![s] = @ \cup {c}]
  /\ hpc' = [hpc EXCEPT ![s] = IF c = "clientDone" THEN "upWrite"
                                                    ELSE "dgClose"]
  /\ UNCHANGED << clockVars, tokenVars, managerVars, runVars, req, validProto,
                  respProto, loopAVars, loopBVars, registryVars, connVars,
                  clientOut, deepgramOut, nframes, shutdownVars >>

\* lines 912-913 with an empty reason in FormatCloseMessage
UpWriteEndNoReason(s, ok) ==
  /\ hpc[s] = "upWrite"
  /\ ok \in WriteResults(deepgramCloses[s])
  /\ deepgramOut' = [deepgramOut EXCEPT ![s] =
        Append(@, CloseFrame("handler", CloseNormalClosure, ""))]
  /\ hpc' = [hpc EXCEPT ![s] = "upClose"]
  /\ UNCHANGED << clockVars, tokenVars, managerVars, runVars, req, validProto,
                  respProto, branch, loopAVars, loopBVars, registryVars,
                  connVars, clientOut, nframes, shutdownVars >>

\* lines 912-913: deepgramConn.WriteMessage(CloseMessage, ...) returns
UpWriteEnd(s, ok) ==
  /\ hpc[s] = "upWrite"
  /\ ok \in WriteResults(deepgramCloses[s])
  /\ deepgramOut' = [deepgramOut EXCEPT ![s] =
        Append(@, CloseFrame("handler", CloseNormalClosure,
                             "Client disconnected"))]
  /\ hpc' = [hpc EXCEPT ![s] = "upClose"]
  /\ UNCHANGED << clockVars, tokenVars, managerVars, runVars, req, validProto,
                  respProto, branch, loopAVars, loopBVars, registryVars,
                  connVars, clientOut, nframes, shutdownVars >>

\* lines 918-920: the select statement is left once its case has run
\* the select of line 909 inside a loop that runs until both cases have run
AfterSelectLoop(s) ==
  IF branch[s] = {"clientDone", "deepgramDone"} THEN "delete" ELSE "select"

AfterSelect(s) == "delete"

\* line 914 left out: the handler goes on without deepgramConn.Close()
UpCloseForgotten(s) ==
  /\ hpc[s] = "upClose"
  /\ hpc' = [hpc EXCEPT ![s] = AfterSelect(s)]
  /\ UNCHANGED << clockVars, tokenVars, managerVars, runVars, req, validProto,
                  respProto, branch, loopAVars, loopBVars, registryVars,
                  connVars, clientOut, deepgramOut, nframes, shutdownVars >>

\* line 914: deepgramConn.Close()
UpClose(s) ==
  /\ hpc[s] = "upClose"
  /\ deepgramCloses' = [deepgramCloses EXCEPT ![s] = @ + 1]
  /\ hpc' = [hpc EXCEPT ![s] = AfterSelect(s)]
  /\ UNCHANGED << clockVars, tokenVars, managerVars, runVars, req, validProto,
                  respProto, branch, loopAVars, loopBVars, registryVars,
                  clientCloses, clientOut, deepgramOut, nframes,
                  shutdownVars >>

\* line 917: clientConn.Close()
DgClose(s) ==
  /\ hpc[s] = "dgClose"
  /\ clientCloses' = [clientCloses EXCEPT ![s] = @ + 1]
  /\ hpc' = [hpc EXCEPT ![s] = AfterSelect(s)]
  /\ UNCHANGED << clockVars, tokenVars, managerVars, runVars, req, validProto,
                  respProto, branch, loopAVars, loopBVars, registryVars,
                  deepgramCloses, clientOut, deepgramOut, nframes,
                  shutdownVars >>

\* lines 920-921 without the Delete
DeleteForgotten(s) ==
  /\ hpc[s] = "delete"
  /\ hpc' = [hpc EXCEPT ![s] = "returned"]
  /\ UNCHANGED << clockVars, tokenVars, managerVars, runVars, req, validProto,
                  respProto, branch, loopAVars, loopBVars, registryVars,
                  connVars, clientOut, deepgramOut, nframes, shutdownVars >>

\* lines 920-921 with the Delete made only after case <-deepgramDone
DeleteAfterUpstreamOnly(s) ==
  /\ hpc[s] = "delete"
  /\ activeConnections' =
       IF "deepgramDone" \in branch[s]
       THEN activeConnections \ {s}
       ELSE activeConnections
  /\ deletes' = [deletes EXCEPT ![s] = @ + 1]
  /\ hpc' = [hpc EXCEPT ![s] = "returned"]
  /\ UNCHANGED << clockVars, tokenVars, managerVars, runVars, req, validProto,
                  respProto, branch, loopAVars, loopBVars, connVars, clientOut,
                  deepgramOut, nframes, shutdownVars >>

\* lines 920-921 emptying the whole map in place of Delete(clientConn)
DeleteAll(s) ==
  /\ hpc[s] = "delete"
  /\ activeConnections' = {}
  /\ deletes' = [deletes EXCEPT ![s] = @ + 1]
  /\ hpc' = [hpc EXCEPT ![s] = "returned"]
  /\ UNCHANGED << clockVars, tokenVars, managerVars, runVars, req, validProto,
                  respProto, branch, loopAVars, loopBVars, connVars, clientOut,
                  deepgramOut, nframes, shutdownVars >>

\* lines 920-921: activeConnections.Delete(clientConn), and the handler returns
Delete(s) ==
  /\ hpc[s] = "delete"
  /\ activeConnections' = activeConnections \ {s}
  /\ deletes' = [deletes EXCEPT ![s] = @ + 1]
  /\ hpc' = [hpc EXCEPT ![s] = "returned"]
  /\ UNCHANGED << clockVars, tokenVars, managerVars, runVars, req, validProto,
                  respProto, branch, loopAVars, loopBVars, connVars, clientOut,
                  deepgramOut, nframes, shutdownVars >>

\* --------------------------------------------------------- gracefulShutdown

\* lines 1007-1008, 928-933: a signal arrives and Range begins
Signal ==
  /\ spc = "idle"
  /\ spc' = "range"
  /\ rangeStart' = activeConnections
  /\ UNCHANGED << clockVars, tokenVars, managerVars, runVars, handlerVars,
                  loopAVars, loopBVars, registryVars, connVars, clientOut,
                  deepgramOut, nframes, sConn, visited >>

\* lines 933-936: Range calls the callback on a key of the map, and the
\* callback's WriteMessage is in progress
RangeVisit(s) ==
  /\ spc = "range"
  /\ s \in activeConnections \ visited
  /\ spc' = "write"
  /\ sConn' = s
  /\ UNCHANGED << clockVars, tokenVars, managerVars, runVars, handlerVars,
                  loopAVars, loopBVars, registryVars, connVars, clientOut,
                  deepgramOut, nframes, visited, rangeStart >>

\* lines 935-936: conn.WriteMessage(CloseMessage, ...) returns
ShutdownWriteEnd(ok) ==
  /\ spc = "write"
  /\ ok \in WriteResults(clientCloses[sConn])
  /\ clientOut' = [clientOut EXCEPT ![sConn] =
        Append(@, CloseFrame("shutdown", CloseGoingAway,
                             "Server shutting down"))]
  /\ spc' = "close"
  /\ UNCHANGED << clockVars, tokenVars, managerVars, runVars, handlerVars,
                  loopAVars, loopBVars, registryVars, connVars, deepgramOut,
                  nframes, sConn, visited, rangeStart >>

\* lines 937-939 without conn.Close()
ShutdownCloseForgotten ==
  /\ spc = "close"
  /\ visited' = visited \cup {sConn}
  /\ sConn' = 0
  /\ spc' = "range"
  /\ UNCHANGED << clockVars, tokenVars, managerVars, runVars, handlerVars,
                  loopAVars, loopBVars, registryVars, connVars, clientOut,
                  deepgramOut, nframes, rangeStart >>

\* lines 937-939: conn.Close(), and the callback returns true
ShutdownClose ==
  /\ spc = "close"
  /\ clientCloses' = [clientCloses EXCEPT ![sConn] = @ + 1]
  /\ visited' = visited \cup {sConn}
  /\ sConn' = 0
  /\ spc' = "range"
  /\ UNCHANGED << clockVars, tokenVars, managerVars, runVars, handlerVars,
                  loopAVars, loopBVars, registryVars, deepgramCloses,
                  clientOut, deepgramOut, nframes, rangeStart >>

\* line 940: Range returns: it has visited every key that was in the map
\* for the whole call; a key stored meanwhile may have been left out
RangeEnd ==
  /\ spc = "range"
  /\ (rangeStart \cap activeConnections) \subseteq visited
  /\ spc' = "shutdown"
  /\ UNCHANGED << clockVars, tokenVars, managerVars, runVars, handlerVars,
                  loopAVars, loopBVars, registryVars, connVars, clientOut,
                  deepgramOut, nframes, sConn, visited, rangeStart >>

\* lines 944-951: server.Shutdown closes the listener: no request is
\* accepted any more.  (The forwarding goroutines run on hijacked
\* connections, which server.Shutdown does not wait for; the model follows
\* them for as long as the process runs.)
ServerShutdown ==
  /\ spc = "shutdown"
  /\ spc' = "done"
  /\ UNCHANGED << clockVars, tokenVars, managerVars, runVars, handlerVars,
                  loopAVars, loopBVars, registryVars, connVars, clientOut,
                  deepgramOut, nframes, sConn, visited, rangeStart >>

\* ------------------------------------------------------------ specification

HandlerStep(s) ==
  \/ Authenticate(s)
  \/ \E ok \in BOOLEAN : Upgrade(s, ok)
  \/ Store(s)
  \/ DialOk(s)
  \/ DialFail(s)
  \/ \E ok \in BOOLEAN : ErrWriteEnd(s, ok)
  \/ ErrClose(s)
  \/ ErrDelete(s)
  \/ \E c \in {"clientDone", "deepgramDone"} : Select(s, c)
  \/ \E ok \in BOOLEAN : UpWriteEnd(s, ok)
  \/ UpClose(s)
  \/ DgClose(s)
  \/ Delete(s)

LoopAStep(s) ==
  \/ LoopAReadClosed(s)
  \/ \E ok \in BOOLEAN : LoopACloseWriteEnd(s, ok)
  \/ \E ok \in BOOLEAN : LoopAWriteEnd(s, ok)

LoopBStep(s) ==
  \/ LoopBReadClosed(s)
  \/ \E ok \in BOOLEAN : LoopBWriteEnd(s, ok)

ShutdownStep ==
  \/ \E s \in Sessions : RangeVisit(s)
  \/ \E ok \in BOOLEAN : ShutdownWriteEnd(ok)
  \/ ShutdownClose
  \/ RangeEnd
  \/ ServerShutdown

\* -------------------------------------------------------- WebSocketManager

broadcastVars == << bcpc, bcMsg, bcConn, bcSeen, bcAtCall, nbroadcasts >>

\* lines 42-46: under the write lock, wm.connections[conn] = true
AddConnection(conn) ==
  /\ mutex = {}
  /\ connections' = [k \in DOMAIN connections \cup {conn} |-> TRUE]

\* lines 48-52 with the map emptied in place of the delete
RemoveConnectionAll(conn) ==
  /\ mutex = {}
  /\ connections' = NewWebSocketManager

\* lines 48-52: under the write lock, delete(wm.connections, conn)
RemoveConnection(conn) ==
  /\ mutex = {}
  /\ connections' = [k \in DOMAIN connections \ {conn} |-> connections[k]]

\* a caller of the manager by itself (TestWebSocketManager) adds a connection
CallAddConnection(conn) ==
  /\ ~fatal
  /\ Len(calls) < MaxCalls
  /\ AddConnection(conn)
  /\ calls' = Append(calls, [op |-> "AddConnection", conn |-> conn])
  /\ UNCHANGED << clockVars, tokenVars, runVars, proxyVars, mutex, wpc, wsOut,
                  wsCloses, broadcastVars, fatal >>

\* a caller of the manager by itself removes a connection
CallRemoveConnection(conn) ==
  /\ ~fatal
  /\ Len(calls) < MaxCalls
  /\ RemoveConnection(conn)
  /\ calls' = Append(calls, [op |-> "RemoveConnection", conn |-> conn])
  /\ UNCHANGED << clockVars, tokenVars, runVars, proxyVars, mutex, wpc, wsOut,
                  wsCloses, broadcastVars, fatal >>

\* ----------------------------------------------------------- handleWebSocket

\* lines 443-447: upgrader.Upgrade returns; on an error the handler returns
WsUpgrade(c, ok) ==
  /\ ~fatal
  /\ wpc[c] = "idle"
  /\ wpc' = [wpc EXCEPT ![c] = IF ok THEN "add" ELSE "failed"]
  /\ UNCHANGED << clockVars, tokenVars, runVars, proxyVars, connections, mutex,
                  calls, wsOut, wsCloses, broadcastVars, fatal >>

\* lines 449-453: wsManager.AddConnection(conn) returns and conn.WriteJSON
\* is called
WsAdd(c) ==
  /\ ~fatal
  /\ wpc[c] = "add"
  /\ AddConnection(c)
  /\ wpc' = [wpc EXCEPT ![c] = "hello"]
  /\ UNCHANGED << clockVars, tokenVars, runVars, proxyVars, mutex, calls,
                  wsOut, wsCloses, broadcastVars, fatal >>

\* lines 453-456: conn.WriteJSON returns, its result is dropped
WsHelloEnd(c) ==
  /\ ~fatal
  /\ wpc[c] = "hello"
  /\ wsOut' = [wsOut EXCEPT ![c] =
        @ (+) SetToBag({Write("handleWebSocket", TextMessage, connectedMsg,
                              0)})]
  /\ wpc' = [wpc EXCEPT ![c] = "read"]
  /\ UNCHANGED << clockVars, tokenVars, runVars, proxyVars, connections, mutex,
                  calls, wsCloses, broadcastVars, fatal >>

\* line 460: conn.ReadMessage returns a binary or a text frame (an open
\* connection only)
WsRead(c) ==
  /\ ~fatal
  /\ wpc[c] = "read"
  /\ wsCloses[c] = 0
  /\ wpc' = [wpc EXCEPT ![c] = "log"]
  /\ UNCHANGED << clockVars, tokenVars, runVars, proxyVars, connections, mutex,
                  calls, wsOut, wsCloses, broadcastVars, fatal >>

\* lines 468-478: the frame is logged, whatever its type, and the loop
\* reads again
WsLog(c) ==
  /\ ~fatal
  /\ wpc[c] = "log"
  /\ wpc' = [wpc EXCEPT ![c] = "read"]
  /\ UNCHANGED << clockVars, tokenVars, runVars, proxyVars, connections, mutex,
                  calls, wsOut, wsCloses, broadcastVars, fatal >>

\* lines 460-462: conn.ReadMessage returns an error
WsReadErr(c) ==
  /\ ~fatal
  /\ wpc[c] = "read"
  /\ wpc' = [wpc EXCEPT ![c] = "remove"]
  /\ UNCHANGED << clockVars, tokenVars, runVars, proxyVars, connections, mutex,
                  calls, wsOut, wsCloses, broadcastVars, fatal >>

\* lines 463-464 without wsManager.RemoveConnection(conn)
WsRemoveForgotten(c) ==
  /\ ~fatal
  /\ wpc[c] = "remove"
  /\ wpc' = [wpc EXCEPT ![c] = "close"]
  /\ UNCHANGED << clockVars, tokenVars, runVars, proxyVars, connections, mutex,
                  calls, wsOut, wsCloses, broadcastVars, fatal >>

\* line 463: wsManager.RemoveConnection(conn)
WsRemove(c) ==
  /\ ~fatal
  /\ wpc[c] = "remove"
  /\ RemoveConnection(c)
  /\ wpc' = [wpc EXCEPT ![c] = "close"]
  /\ UNCHANGED << clockVars, tokenVars, runVars, proxyVars, mutex, calls,
                  wsOut, wsCloses, broadcastVars, fatal >>

\* lines 464-465: conn.Close(), and break leaves the loop
WsClose(c) ==
  /\ ~fatal
  /\ wpc[c] = "close"
  /\ wsCloses' = [wsCloses EXCEPT ![c] = @ + 1]
  /\ wpc' = [wpc EXCEPT ![c] = "done"]
  /\ UNCHANGED << clockVars, tokenVars, runVars, proxyVars, connections, mutex,
                  calls, wsOut, broadcastVars, fatal >>

\* ------------------------------------------------------------------ Broadcast

\* lines 54-56: a receiver calls Broadcast(message), which takes the read
\* lock
Broadcast(b, message) ==
  /\ ~fatal
  /\ bcpc[b] = "idle"
  /\ nbroadcasts < MaxBroadcasts
  /\ nbroadcasts' = nbroadcasts + 1
  /\ mutex' = mutex \cup {b}
  /\ bcMsg' = [bcMsg EXCEPT ![b] = message]
  /\ bcSeen' = [bcSeen EXCEPT ![b] = {}]
  /\ bcAtCall' = [bcAtCall EXCEPT ![b] = DOMAIN connections]
  /\ bcpc' = [bcpc EXCEPT ![b] = "marshal"]
  /\ UNCHANGED << clockVars, tokenVars, runVars, proxyVars, connections, calls,
                  wpc, wsOut, wsCloses, bcConn, fatal >>

\* lines 58-62: json.Marshal(message); on an error Broadcast returns, and
\* the deferred RUnlock runs
BcMarshal(b) ==
  /\ ~fatal
  /\ bcpc[b] = "marshal"
  /\ IF jsonMarshal(bcMsg[b]).err
     THEN /\ bcpc' = [bcpc EXCEPT ![b] = "idle"]
          /\ mutex' = mutex \ {b}
          /\ bcMsg' = [bcMsg EXCEPT ![b] = NoMessage]
          /\ bcAtCall' = [bcAtCall EXCEPT ![b] = {}]
     ELSE /\ bcpc' = [bcpc EXCEPT ![b] = "range"]
          /\ UNCHANGED << mutex, bcMsg, bcAtCall >>
  /\ UNCHANGED << clockVars, tokenVars, runVars, proxyVars, connections, calls,
                  wpc, wsOut, wsCloses, bcConn, bcSeen, nbroadcasts, fatal >>

\* lines 64-65: range produces a key of the map it has not produced, and
\* conn.WriteMessage is called
BcRange(b, conn) ==
  /\ ~fatal
  /\ bcpc[b] = "range"
  /\ conn \in DOMAIN connections \ bcSeen[b]
  /\ bcConn' = [bcConn EXCEPT ![b] = conn]
  /\ bcSeen' = [bcSeen EXCEPT ![b] = @ \cup {conn}]
  /\ bcpc' = [bcpc EXCEPT ![b] = "write"]
  /\ UNCHANGED << clockVars, tokenVars, runVars, proxyVars, connections, mutex,
                  calls, wpc, wsOut, wsCloses, bcMsg, bcAtCall, nbroadcasts,
                  fatal >>

\* lines 64, 72: range has no key left; Broadcast returns, and the deferred
\* RUnlock runs
BcRangeEnd(b) ==
  /\ ~fatal
  /\ bcpc[b] = "range"
  /\ DOMAIN connections \ bcSeen[b] = {}
  /\ mutex' = mutex \ {b}
  /\ bcMsg' = [bcMsg EXCEPT ![b] = NoMessage]
  /\ bcConn' = [bcConn EXCEPT ![b] = 0]
  /\ bcSeen' = [bcSeen EXCEPT ![b] = {}]
  /\ bcAtCall' = [bcAtCall EXCEPT ![b] = {}]
  /\ bcpc' = [bcpc EXCEPT ![b] = "idle"]
  /\ UNCHANGED << clockVars, tokenVars, runVars, proxyVars, connections, calls,
                  wpc, wsOut, wsCloses, nbroadcasts, fatal >>

\* lines 65-67: conn.WriteMessage(websocket.TextMessage, data) returns
BcWriteEnd(b, ok) ==
  /\ ~fatal
  /\ bcpc[b] = "write"
  /\ ok \in WriteResults(wsCloses[bcConn[b]])
  /\ wsOut' = [wsOut EXCEPT ![bcConn[b]] =
        @ (+) SetToBag({Write(b, TextMessage, jsonMarshal(bcMsg[b]).data,
                              0)})]
  /\ bcpc' = [bcpc EXCEPT ![b] = IF ok THEN "range" ELSE "close"]
  /\ UNCHANGED << clockVars, tokenVars, runVars, proxyVars, connections, mutex,
                  calls, wpc, wsCloses, bcMsg, bcConn, bcSeen, bcAtCall,
                  nbroadcasts, fatal >>

\* line 68: conn.Close()
BcClose(b) ==
  /\ ~fatal
  /\ bcpc[b] = "close"
  /\ wsCloses' = [wsCloses EXCEPT ![bcConn[b]] = @ + 1]
  /\ bcpc' = [bcpc EXCEPT ![b] = "delete"]
  /\ UNCHANGED << clockVars, tokenVars, runVars, proxyVars, connections, mutex,
                  calls, wpc, wsOut, bcMsg, bcConn, bcSeen, bcAtCall,
                  nbroadcasts, fatal >>

\* the Broadcast calls other than b whose range loop is under way: they
\* read the map with no ordering against a write of b
Ranging(b) ==
  {o \in mutex \ {b} : bcpc[o] \in {"range", "write", "close", "delete"}}

\* line 69: delete(wm.connections, conn) under the read lock.  When another
\* Broadcast is ranging over the map this is a data race: the delete takes
\* effect, or the runtime ends the process (fatal error: concurrent map
\* iteration and map write, or concurrent map writes)
BcDelete(b, crash) ==
  /\ ~fatal
  /\ bcpc[b] = "delete"
  /\ crash => Ranging(b) # {}
  /\ fatal' = crash
  /\ connections' =
       [k \in DOMAIN connections \ {bcConn[b]} |-> connections[k]]
  /\ bcpc' = [bcpc EXCEPT ![b] = "range"]
  /\ UNCHANGED << clockVars, tokenVars, runVars, proxyVars, mutex, calls, wpc,
                  wsOut, wsCloses, bcMsg, bcConn, bcSeen, bcAtCall,
                  nbroadcasts >>

\* the steps a handleWebSocket invocation takes by itself
HandleWebSocketStep(c) ==
  \/ WsAdd(c)
  \/ WsHelloEnd(c)
  \/ WsLog(c)
  \/ WsRemove(c)
  \/ WsClose(c)

\* the steps a Broadcast call takes by itself
BroadcastStep(b) ==
  \/ BcMarshal(b)
  \/ \E conn \in Conns : BcRange(b, conn)
  \/ BcRangeEnd(b)
  \/ \E ok \in BOOLEAN : BcWriteEnd(b, ok)
  \/ BcClose(b)
  \/ \E crash \in BOOLEAN : BcDelete(b, crash)

\* ----------------------------------------------------------- MyHandler.Run

\* the SDK sends a value on a channel it got from a getter: the channels
\* are unbuffered (lines 97-111), so the sender blocks until a receive
Send(ch) ==
  /\ ~chClosed[ch]
  /\ ~sending[ch]
  /\ sending' = [sending EXCEPT ![ch] = TRUE]
  /\ UNCHANGED << clockVars, tokenVars, managerVars, proxyVars, chClosed, rpc,
                  runpc >>

\* the owner of the channels closes one (TestGracefulShutdown), with no
\* sender blocked on it
CloseChan(ch) ==
  /\ ~chClosed[ch]
  /\ ~sending[ch]
  /\ chClosed' = [chClosed EXCEPT ![ch] = TRUE]
  /\ UNCHANGED << clockVars, tokenVars, managerVars, proxyVars, sending, rpc,
                  runpc >>

\* for v := range ch: the receiver takes the value of a blocked sender.
\* The receivers that only print go back to the range at once; the two
\* that broadcast go on with the body of their loop
RunReceive(ch) ==
  /\ rpc[ch] = "recv"
  /\ sending[ch]
  /\ sending' = [sending EXCEPT ![ch] = FALSE]
  /\ rpc' = [rpc EXCEPT ![ch] = IF ch \in Receivers THEN "handle" ELSE "recv"]
  /\ UNCHANGED << clockVars, tokenVars, managerVars, proxyVars, chClosed,
                  runpc >>

\* lines 211-270, 300-311: the body of a broadcasting receiver, with no
\* browser registered: Broadcast takes the read lock, marshals, finds no
\* key to write to and returns; the audio is appended to the WAV file;
\* every path of the body leads back to the range
RunHandle(ch) ==
  /\ rpc[ch] = "handle"
  /\ DOMAIN connections = {}
  /\ rpc' = [rpc EXCEPT ![ch] = "recv"]
  /\ UNCHANGED << clockVars, tokenVars, managerVars, proxyVars, chClosed,
                  sending, runpc >>

\* the range over a closed channel ends, the goroutine returns and the
\* deferred wgReceivers.Done() runs
RunExit(ch) ==
  /\ rpc[ch] = "recv"
  /\ chClosed[ch]
  /\ rpc' = [rpc EXCEPT ![ch] = "done"]
  /\ UNCHANGED << clockVars, tokenVars, managerVars, proxyVars, chClosed,
                  sending, runpc >>

\* lines 420-422 without wgReceivers.Wait()
RunReturnNoWait ==
  /\ runpc = "wait"
  /\ runpc' = "returned"
  /\ UNCHANGED << clockVars, tokenVars, managerVars, proxyVars, chClosed,
                  sending, rpc >>

\* lines 420-422: wgReceivers.Wait() returns when every receiver is done,
\* and Run returns nil
RunReturn ==
  /\ runpc = "wait"
  /\ \A ch \in Followed \cap Ranged : rpc[ch] = "done"
  /\ runpc' = "returned"
  /\ UNCHANGED << clockVars, tokenVars, managerVars, proxyVars, chClosed,
                  sending, rpc >>

\* the steps the receiver of ch takes by itself
ReceiverStep(ch) ==
  \/ RunReceive(ch)
  \/ RunHandle(ch)
  \/ RunExit(ch)

\* what the peers, the network, the clock and the operator do
Environment ==
  \/ Tick
  \/ \E s \in Served, protocols \in ProtocolLists : Request(s, protocols)
  \/ \E s \in Sessions, f \in Frames : LoopARead(s, f)
  \/ \E s \in Sessions, code \in CloseCodes \cup {NoCode} :
       LoopAReadErr(s, code)
  \/ \E s \in Sessions, f \in Frames : LoopBRead(s, f)
  \/ \E s \in Sessions : LoopBReadErr(s)
  \/ Signal

Next ==
  \/ Environment
  \/ \E s \in Sessions : HandlerStep(s)
  \/ \E s \in Sessions : LoopAStep(s)
  \/ \E s \in Sessions : LoopBStep(s)
  \/ ShutdownStep

Spec == Init /\ [][Next]_vars

\* The Go scheduler runs every runnable goroutine, and a call that can
\* return does return: the handler, the two forwarding goroutines and
\* gracefulShutdown each take their next step.  Nothing is assumed of the
\* peers: a read on an open connection may block for ever.
Fairness ==
  /\ \A s \in Sessions : WF_vars(HandlerStep(s))
  /\ \A s \in Sessions : WF_vars(LoopAStep(s))
  /\ \A s \in Sessions : WF_vars(LoopBStep(s))
  /\ WF_vars(ShutdownStep)

FairSpec == Spec /\ Fairness

\* Every session is served, so that handlers run side by side; the peers
\* send no data frame, they only go away.
ConcurrentNext ==
  \/ \E s \in Sessions, protocols \in ProtocolLists : Request(s, protocols)
  \/ \E s \in Sessions : HandlerStep(s)
  \/ \E s \in Sessions : LoopAReadErr(s, NoCode)
  \/ \E s \in Sessions : LoopAReadClosed(s)
  \/ \E s \in Sessions, ok \in BOOLEAN : LoopACloseWriteEnd(s, ok)
  \/ \E s \in Sessions : LoopBReadErr(s)
  \/ \E s \in Sessions : LoopBReadClosed(s)
  \/ Signal
  \/ ShutdownStep

ConcurrentSpec == Init /\ [][ConcurrentNext]_vars

\* the token service by itself: tokens are issued, or brought by a
\* caller, and validated with any secret at any time
TokenNext ==
  \/ Tick
  \/ SubTick
  \/ \E secret \in Secrets : IssueToken(secret)
  \/ \E tokenStr \in TokenStrings : Receive(tokenStr)
  \/ \E secret \in Secrets : ValidateToken(secret)

TokenSpec == Init /\ [][TokenNext]_vars

\* the browser endpoint and the receivers of MyHandler.Run: browsers
\* connect to /socket.io/, send frames and go away, while the receivers
\* broadcast
ManagerNext ==
  \/ \E c \in Conns, ok \in BOOLEAN : WsUpgrade(c, ok)
  \/ \E c \in Conns : WsRead(c)
  \/ \E c \in Conns : WsReadErr(c)
  \/ \E c \in Conns : HandleWebSocketStep(c)
  \/ \E b \in Receivers :
       \E message \in MessagesOf(b) : Broadcast(b, message)
  \/ \E b \in Receivers : BroadcastStep(b)

ManagerSpec == Init /\ [][ManagerNext]_vars

\* a manager by itself: any sequence of AddConnection and RemoveConnection
\* calls
ManagerCallsNext ==
  \/ \E conn \in Conns : CallAddConnection(conn)
  \/ \E conn \in Conns : CallRemoveConnection(conn)

ManagerCallsSpec == Init /\ [][ManagerCallsNext]_vars

\* a MyHandler by itself (NewMyHandler starts Run): values are sent on
\* its channels, and its channels are closed, in any order
RunNext ==
  \/ \E ch \in Followed : Send(ch)
  \/ \E ch \in Followed : CloseChan(ch)
  \/ \E ch \in Followed : ReceiverStep(ch)
  \/ RunReturn

RunSpec == Init /\ [][RunNext]_vars

\* every goroutine of Run that can take a step takes it
RunFairness ==
  /\ \A ch \in Followed : WF_vars(ReceiverStep(ch))
  /\ WF_vars(RunReturn)

FairRunSpec == RunSpec /\ RunFairness

\* ================================================================= claims

\* the close frames among the WriteMessage calls of a log
CloseFrames(log) == {i \in DOMAIN log : log[i].mt = CloseMessage}

\* C1: the close frame Loop A writes to the client for the close error it
\* read from upstream carries 1000 when the error's code is one of 1004,
\* 1005, 1006, 1015, and the error's code itself when that is any other
\* code in 1000..4999.
C1_CloseCodeTranslated ==
  [][\A s \in Sessions :
       (apc[s] = "closeWrite" /\ apc'[s] # "closeWrite") =>
         /\ Len(clientOut'[s]) = Len(clientOut[s]) + 1
         /\ LET c == aMsg[s].err
                w == clientOut'[s][Len(clientOut'[s])]
            IN /\ w.by = "loopA"
               /\ w.mt = CloseMessage
               /\ c \in {1004, 1005, 1006, 1015} => w.code = 1000
               /\ (c \in 1000..4999 /\ c \notin {1004, 1005, 1006, 1015})
                     => w.code = c]_vars

\* Loop A has read a close error with a non-reserved code other than 1000
\* and has forwarded it unchanged
C1_Witness ==
  \E s \in Sessions :
    /\ apc[s] = "done"
    /\ \E i \in CloseFrames(clientOut[s]) :
         clientOut[s][i].by = "loopA" /\ clientOut[s][i].code = 4999

\* C2: every close frame written to a client connection, by whatever
\* writer, carries a code in 1000..4999 that is none of 1004, 1005, 1006,
\* 1015.
C2_ClientCloseCodesSafe ==
  \A s \in Sessions : \A i \in CloseFrames(clientOut[s]) :
    /\ clientOut[s][i].code \in 1000..4999
    /\ clientOut[s][i].code \notin {1004, 1005, 1006, 1015}

\* a client connection has been written a close frame by Loop A and
\* another by gracefulShutdown
C2_Witness ==
  \E s \in Sessions :
    /\ \E i \in CloseFrames(clientOut[s]) : clientOut[s][i].by = "loopA"
    /\ \E i \in CloseFrames(clientOut[s]) : clientOut[s][i].by = "shutdown"

\* a proposed sub-protocol carries a token that validates now
CarriesValidToken(protocols) ==
  \E i \in DOMAIN protocols :
    /\ protocols[i].prefix
    /\ validateToken(protocols[i].tok, appConfig.sessionSecret)

\* where a handler is that has not passed authentication
Unauthenticated == {"idle", "auth", "unauthorized"}

\* C3: the handler gets past authentication only with a proposed
\* sub-protocol whose token validates; before that, and after a 401, there
\* is no registry entry and no forwarding loop, and the 401 leaves the
\* registry as it was.
C3_NoSessionWithoutValidToken ==
  /\ [](\A s \in Sessions :
          hpc[s] \in Unauthenticated =>
            /\ s \notin activeConnections
            /\ apc[s] = "off" /\ bpc[s] = "off"
            /\ clientOut[s] = << >> /\ deepgramOut[s] = << >>)
  /\ [][\A s \in Sessions :
          /\ (hpc[s] \in Unauthenticated /\ hpc'[s] \notin Unauthenticated)
               => (hpc[s] = "auth" /\ CarriesValidToken(req[s]))
          /\ (hpc[s] = "auth" /\ ~CarriesValidToken(req[s]) /\ hpc'[s] # "auth")
               => (hpc'[s] = "unauthorized"
                   /\ activeConnections' = activeConnections)]_vars

\* a request that proposed no sub-protocol whose token validates got 401
C3_Witness ==
  \E s \in Sessions : hpc[s] = "unauthorized"

\* a forwarding loop of the session has terminated
LoopFinished(s) == clientDone(s) \/ deepgramDone(s)

C6_BothConnectionsClosed ==
  \A s \in Sessions :
    (hpc[s] = "returned" /\ clientDone(s) /\ deepgramDone(s))
      => (clientCloses[s] >= 1 /\ deepgramCloses[s] >= 1)

\* C7: Close is called at most once on the client connection and at most
\* once on the upstream connection of a session.
C7_NoDoubleClose ==
  \A s \in Sessions : clientCloses[s] <= 1 /\ deepgramCloses[s] <= 1

\* the writers whose WriteMessage call on the client connection of s is
\* in progress
ClientWriters(s) ==
  {w \in {"loopA", "handler", "shutdown"} :
     \/ w = "loopA" /\ apc[s] \in {"write", "closeWrite"}
     \/ w = "handler" /\ hpc[s] = "errWrite"
     \/ w = "shutdown" /\ spc = "write" /\ sConn = s}

\* C8: while gracefulShutdown's close-frame write on a client connection
\* is in progress, no other write on that connection is in progress.
C8_ClientWritesSerialized ==
  \A s \in Sessions :
    "shutdown" \in ClientWriters(s) => ClientWriters(s) = {"shutdown"}

\* the log grew by exactly one WriteMessage call: a data frame written by
\* the loop, with the type tag and the payload of frame
WroteFrame(before, after, by, frame) ==
  /\ Len(after) = Len(before) + 1
  /\ \A i \in DOMAIN before : after[i] = before[i]
  /\ LET w == after[Len(after)]
     IN /\ w.by = by
        /\ w.mt = frame.typ
        /\ w.mt \in {TextMessage, BinaryMessage}
        /\ w.data = frame.data

\* C9: the data frame a forwarding loop writes has the type tag and the
\* payload of the frame it last read from the opposite connection, in both
\* directions.
C9_FramesForwardedUnmodified ==
  [][\A s \in Sessions :
       /\ (apc[s] = "write" /\ apc'[s] # "write") =>
             WroteFrame(clientOut[s], clientOut'[s], "loopA",
                        deepgramIn[s][Len(deepgramIn[s])])
       /\ (bpc[s] = "write" /\ bpc'[s] # "write") =>
             WroteFrame(deepgramOut[s], deepgramOut'[s], "loopB",
                        clientIn[s][Len(clientIn[s])])]_vars

\* a binary frame from upstream was written to the client as binary, and
\* a text frame from the client was written upstream as text
C9_Witness ==
  \E s \in Sessions :
    /\ \E i \in DOMAIN clientOut[s] :
         clientOut[s][i] = Write("loopA", BinaryMessage, "b", 0)
    /\ \E i \in DOMAIN deepgramOut[s] :
         deepgramOut[s][i] = Write("loopB", TextMessage, "a", 0)

\* the data frames a forwarding loop wrote, in the order of its calls
DataFrames(log, by) ==
  LET IsData(w) == w.by = by /\ w.mt # CloseMessage
      written == SelectSeq(log, IsData)
  IN [i \in DOMAIN written |->
        [typ |-> written[i].mt, data |-> written[i].data]]

\* written is the beginning of read, short of it by one frame at most
FollowsInOrder(written, read) ==
  /\ Len(written) <= Len(read)
  /\ Len(read) - Len(written) <= 1
  /\ \A i \in DOMAIN written : written[i] = read[i]

\* C10: in each direction the data frames written to the destination are,
\* at every moment, the frames read from the source so far, in the same
\* order and each once, but for the one frame being forwarded.
C10_OrderPreserved ==
  \A s \in Sessions :
    /\ FollowsInOrder(DataFrames(clientOut[s], "loopA"), deepgramIn[s])
    /\ FollowsInOrder(DataFrames(deepgramOut[s], "loopB"), clientIn[s])

\* a loop has forwarded two different frames, in the order it read them
C10_Witness ==
  \E s \in Sessions :
    LET written == DataFrames(deepgramOut[s], "loopB")
    IN /\ Len(written) = 2
       /\ written[1] # written[2]
       /\ bpc[s] = "read"

\* the handler of s is on the path of a failed dial (lines 842-852), or
\* has returned from it
DialFailed(s) ==
  \/ hpc[s] \in {"errWrite", "errClose", "errDelete"}
  \/ hpc[s] = "returned" /\ apc[s] = "off"

\* the WriteMessage calls of a log made by one writer
WritesBy(log, by) ==
  LET IsBy(w) == w.by = by IN SelectSeq(log, IsBy)

\* the text frame that holds the error envelope
ErrorFrame ==
  Write("handler", TextMessage,
        "{\"code\":\"CONNECTION_FAILED\","
          \o "\"description\":\"Failed to establish proxy connection\","
          \o "\"type\":\"Error\"}",
        0)

\* C11: after a failed dial the handler writes the error envelope (type
\* "Error", code "CONNECTION_FAILED") to the client as one text frame, then
\* closes the client connection, then removes it from the registry; no
\* forwarding loop runs, nothing is written upstream and the dial is not
\* made again.
C11_DialFailurePath ==
  /\ [](\A s \in Sessions :
          DialFailed(s) =>
            /\ apc[s] = "off" /\ bpc[s] = "off"
            /\ deepgramOut[s] = << >>
            /\ WritesBy(clientOut[s], "handler") =
                 IF hpc[s] = "errWrite" THEN << >> ELSE << ErrorFrame >>
            /\ hpc[s] \in {"errDelete", "returned"} => clientCloses[s] >= 1
            /\ (hpc[s] = "returned") = (s \notin activeConnections))
  /\ [][\A s \in Sessions :
          /\ (hpc[s] = "errWrite" /\ hpc'[s] # "errWrite") =>
               /\ hpc'[s] = "errClose"
               /\ clientOut'[s] = Append(clientOut[s], ErrorFrame)
               /\ s \in activeConnections'
          /\ (hpc[s] = "errClose" /\ hpc'[s] # "errClose") =>
               /\ hpc'[s] = "errDelete"
               /\ clientCloses'[s] = clientCloses[s] + 1
               /\ clientOut'[s] = clientOut[s]
               /\ s \in activeConnections'
          /\ (hpc[s] = "errDelete" /\ hpc'[s] # "errDelete") =>
               /\ hpc'[s] = "returned"
               /\ clientOut'[s] = clientOut[s]
               /\ s \notin activeConnections'
          /\ (hpc'[s] = "dial" /\ hpc[s] # "dial") => hpc[s] = "store"]_vars

\* a handler whose dial failed has returned: the client was written the
\* error frame and nothing else, and was closed once
C11_Witness ==
  \E s \in Sessions :
    /\ hpc[s] = "returned" /\ apc[s] = "off"
    /\ clientOut[s] = << ErrorFrame >>
    /\ clientCloses[s] = 1
    /\ s \notin activeConnections

\* the positions of the handler between activeConnections.Store (line 833)
\* and its activeConnections.Delete (line 851 or 920)
Registered ==
  {"dial", "errWrite", "errClose", "errDelete",
   "select", "upWrite", "upClose", "dgClose", "delete"}

\* C12 as stated: a client connection is in activeConnections only if the
\* upstream dial of its session has succeeded (the forwarding loops were
\* started); it is absent while the dial is pending and after a failed dial.
C12_RegistryOnlyAfterDial ==
  \A s \in Sessions :
    s \in activeConnections => (apc[s] # "off" /\ ~DialFailed(s))

\* C12, amended: a client connection is in activeConnections exactly from
\* the Store that follows the upgrade, before the dial, until the Delete
\* of its handler: it is present while the dial is pending and on the
\* path of a failed dial up to line 851, and absent once the handler has
\* returned.
C12_RegistryFromUpgradeToDelete ==
  /\ [](\A s \in Sessions : (s \in activeConnections) = (hpc[s] \in Registered))
  /\ [][\A s \in Sessions :
          (s \notin activeConnections /\ s \in activeConnections')
            => (hpc[s] = "store" /\ hpc'[s] = "dial" /\ apc[s] = "off")]_vars

\* the dial of a session has failed and its client connection is still
\* in the registry
C12_Witness ==
  \E s \in Sessions :
    /\ s \in activeConnections
    /\ hpc[s] = "errClose"
    /\ apc[s] = "off"

\* the least element of a non-empty set of positions
Least(S) == CHOOSE i \in S : \A j \in S : i <= j

\* the positions of the proposed sub-protocols that start with
\* "access_token."
PrefixedAt(protocols) == {i \in DOMAIN protocols : protocols[i].prefix}

\* the positions of the proposed sub-protocols that start with
\* "access_token." and whose token validates now
ValidAt(protocols) ==
  {i \in PrefixedAt(protocols) :
     validateToken(protocols[i].tok, appConfig.sessionSecret)}

\* C13 as stated: the decision is taken on the first proposed sub-protocol
\* with the prefix; when there is none, or the token of that first one
\* fails validateToken, the request is refused.
C13_FirstCandidateDecides ==
  [][\A s \in Sessions :
       (hpc[s] = "auth" /\ hpc'[s] # "auth") =>
         ((\/ PrefixedAt(req[s]) = {}
           \/ Least(PrefixedAt(req[s])) \notin ValidAt(req[s]))
            => hpc'[s] = "unauthorized")]_vars

\* C13, amended: the decision is taken on the first proposed sub-protocol
\* that has the prefix and whose token validates, candidates that fail
\* being passed over; the request is refused with 401, and nothing is
\* created for it afterwards, exactly when no proposed sub-protocol has
\* the prefix and a token that validates.
C13_FirstValidCandidateDecides ==
  /\ [][\A s \in Sessions :
          /\ (hpc[s] = "auth" /\ hpc'[s] # "auth") =>
               IF ValidAt(req[s]) = {}
               THEN /\ hpc'[s] = "unauthorized"
                    /\ validProto'[s] = EmptyProto
                    /\ activeConnections' = activeConnections
               ELSE /\ hpc'[s] = "upgrade"
                    /\ validProto'[s] = req[s][Least(ValidAt(req[s]))]
          /\ hpc[s] = "unauthorized" => hpc'[s] = "unauthorized"]_vars
  /\ [](\A s \in Sessions :
          hpc[s] = "unauthorized" =>
            (s \notin activeConnections /\ respProto[s] = EmptyProto))

\* a request whose first prefixed sub-protocol carries a token that does
\* not validate was accepted on its second one
C13_Witness ==
  \E s \in Sessions :
    /\ hpc[s] = "upgrade"
    /\ Len(req[s]) = 2
    /\ PrefixedAt(req[s]) = {1, 2}
    /\ req[s][1].tok = ForgedToken
    /\ validProto[s] = req[s][2]

\* C14: the Sec-WebSocket-Protocol of a 101 response is the string
\* validateWsToken accepted, which is one of the strings the request
\* proposed, "access_token." prefix included; no response carries any
\* other value, and none before a successful upgrade.
C14_EchoedSubprotocolIsAccepted ==
  /\ [][\A s \in Sessions :
          /\ (hpc[s] = "upgrade" /\ hpc'[s] = "store") =>
               /\ respProto'[s] = validProto[s]
               /\ respProto'[s] # EmptyProto
               /\ respProto'[s].prefix
               /\ \E i \in DOMAIN req[s] : req[s][i] = respProto'[s]
          /\ respProto'[s] # respProto[s] =>
               (hpc[s] = "upgrade" /\ hpc'[s] = "store")]_vars
  /\ [](\A s \in Sessions :
          respProto[s] # EmptyProto =>
            /\ respProto[s] = validProto[s]
            /\ hpc[s] \in Registered \cup {"store", "returned"})

\* an upgrade succeeded and echoed "access_token.<token>" of the request
C14_Witness ==
  \E s \in Sessions :
    /\ hpc[s] = "store"
    /\ respProto[s] = Proto(TRUE, GoodToken)
    /\ validProto[s] = Proto(TRUE, GoodToken)

\* C15 as stated: a token issueToken(s) made is accepted by validateToken
\* under s at every time before the issue time plus jwtExpiry.
C15_AcceptedUntilIssuePlusExpiry ==
  (/\ call.made
   /\ issued # NoIssue
   /\ call.secret = issued.secret
   /\ Before(<< call.at, call.frac >>,
             << issued.at + jwtExpiry, issued.frac >>))
    => ~call.err

\* C15, amended: the expiresAt of a token issueToken(s) made is the issue
\* time truncated to whole seconds, plus jwtExpiry, and validateToken
\* accepts the token under s at every time before that expiresAt.
C15_AcceptedUntilExpiresAt ==
  issued # NoIssue =>
    /\ jwt.exp = issued.at + jwtExpiry
    /\ (/\ call.made
        /\ call.secret = issued.secret
        /\ Before(<< call.at, call.frac >>, << jwt.exp, 0 >>))
         => ~call.err

\* a token issued with the other secret was accepted under it later on
C15_Witness ==
  /\ call.made /\ ~call.err
  /\ issued # NoIssue
  /\ issued.secret = "k2" /\ call.secret = "k2"
  /\ Before(<< issued.at, issued.frac >>, << call.at, call.frac >>)

C17_NonHMACRejectedWithoutSecret ==
  call.made =>
    /\ jwt.alg \notin SigningMethodHMAC => (call.err /\ call.key = NoKey)
    /\ call.key # NoKey =>
         (jwt.alg \in SigningMethodHMAC /\ call.key = call.secret)

\* an unexpired token with alg "none" that names the given secret as its
\* key is rejected
C17_Witness ==
  /\ call.made /\ call.err
  /\ jwt.wf /\ jwt.alg = "none" /\ jwt.key = call.secret
  /\ call.at < jwt.exp

\* the request of s was upgraded on an accepted token and its dial
\* succeeded: a proxy session exists for it
Established(s) == respProto[s] # EmptyProto /\ apc[s] # "off"

\* C18 as stated: a token authorizes a single session, so no two sessions
\* are established on the same token.
C18_TokenSingleUse ==
  \A s \in Sessions, o \in Sessions :
    (s # o /\ Established(s) /\ Established(o))
      => validProto[s].tok # validProto[o].tok

\* C18, amended: acceptance keeps no record of a token; a request that
\* presents a token on which another session is already established is
\* upgraded all the same, as long as the token validates.
C18_TokenReusable ==
  [][\A s \in Sessions :
       (/\ hpc[s] = "auth" /\ hpc'[s] # "auth"
        /\ \E o \in Sessions \ {s}, i \in ValidAt(req[s]) :
             Established(o) /\ validProto[o].tok = req[s][i].tok)
         => (hpc'[s] = "upgrade" /\ validProto'[s] # EmptyProto)]_vars

\* two sessions are established, and registered, on one and the same token
C18_Witness ==
  \E s \in Sessions, o \in Sessions :
    /\ s # o
    /\ Established(s) /\ Established(o)
    /\ validProto[s].tok = validProto[o].tok
    /\ {s, o} \subseteq activeConnections

\* the positions in a log of the close frames of gracefulShutdown, which
\* carry code 1001
GoingAwayFrames(log) ==
  {i \in DOMAIN log :
     /\ log[i].by = "shutdown"
     /\ log[i].mt = CloseMessage
     /\ log[i].code = 1001}

\* C19: gracefulShutdown writes a close frame with code 1001 to each
\* client connection it visits and then closes it; when its Range has
\* ended, every connection that was in the registry when it began, and
\* has not been deleted since, has been visited; the server stops
\* accepting requests only after the Range has ended.
C19_ShutdownBroadcastsThenStops ==
  /\ [](\A s \in visited :
          /\ Cardinality(GoingAwayFrames(clientOut[s])) = 1
          /\ clientCloses[s] >= 1)
  /\ [](spc \in {"shutdown", "done"} =>
          \A s \in rangeStart : s \in visited \/ s \notin activeConnections)
  /\ [][
       /\ (spc = "write" /\ spc' # "write") =>
            /\ spc' = "close"
            /\ GoingAwayFrames(clientOut'[sConn]) =
                 GoingAwayFrames(clientOut[sConn])
                   \cup {Len(clientOut[sConn]) + 1}
            /\ clientCloses' = clientCloses
            /\ sConn \notin visited
       /\ (spc = "close" /\ spc' # "close") =>
            /\ clientCloses'[sConn] = clientCloses[sConn] + 1
            /\ visited' = visited \cup {sConn}
            /\ clientOut' = clientOut
       /\ (spc # "done" /\ spc' = "done") => spc = "shutdown"
       /\ (\E s \in Sessions : hpc[s] = "idle" /\ hpc'[s] # "idle")
            => spc # "done"]_vars

\* two sessions were registered, gracefulShutdown has visited both and
\* the server has stopped accepting
C19_Witness ==
  /\ spc = "done"
  /\ visited = Sessions
  /\ \A s \in Sessions : Established(s)

\* C20: in the branch of clientDone the handler writes one close frame
\* with code 1000 and a non-empty reason to the upstream connection, then
\* closes the upstream connection, and makes no write to the client
\* connection.
C20_ClientFirstClosesUpstream ==
  /\ [](\A s \in Sessions :
          "clientDone" \in branch[s] =>
            /\ WritesBy(clientOut[s], "handler") = << >>
            /\ Len(WritesBy(deepgramOut[s], "handler")) =
                 (IF hpc[s] = "upWrite" THEN 0 ELSE 1)
            /\ (hpc[s] \in {"delete", "returned"} => deepgramCloses[s] = 1))
  /\ [][\A s \in Sessions :
          /\ (hpc[s] = "upWrite" /\ hpc'[s] # "upWrite") =>
               /\ hpc'[s] = "upClose"
               /\ Len(deepgramOut'[s]) = Len(deepgramOut[s]) + 1
               /\ LET w == deepgramOut'[s][Len(deepgramOut'[s])] IN
                    /\ w.by = "handler" /\ w.mt = CloseMessage
                    /\ w.code = 1000 /\ w.data # ""
               /\ deepgramCloses'[s] = 0
          /\ (hpc[s] = "upClose" /\ hpc'[s] # "upClose") =>
               /\ deepgramCloses'[s] = 1
               /\ deepgramOut'[s] = deepgramOut[s]]_vars

\* the client side finished first and the handler has returned: the
\* upstream connection got the handler's close frame and was closed
C20_Witness ==
  \E s \in Sessions :
    /\ branch[s] = {"clientDone"}
    /\ hpc[s] = "returned"
    /\ ~deepgramDone(s)
    /\ Len(WritesBy(deepgramOut[s], "handler")) = 1
    /\ deepgramCloses[s] = 1

\* the close frames Loop A wrote, as positions among its own writes
LoopACloseFrames(s) == CloseFrames(WritesBy(clientOut[s], "loopA"))

\* C21: Loop A writes at most one close frame to the client, as the last
\* of its writes and in the step in which it terminates after a failed
\* read; once it has terminated it writes nothing; the handler closes the
\* client connection in the branch of deepgramDone only when Loop A has
\* terminated, so after that close frame.
C21_CloseFrameBeforeUpstreamFinished ==
  /\ [](\A s \in Sessions :
          /\ Cardinality(LoopACloseFrames(s)) <= 1
          /\ LoopACloseFrames(s) \subseteq
               {Len(WritesBy(clientOut[s], "loopA"))}
          /\ LoopACloseFrames(s) # {} => deepgramDone(s)
          /\ apc[s] = "closeWrite" => LoopACloseFrames(s) = {}
          /\ hpc[s] = "dgClose" => deepgramDone(s))
  /\ [][\A s \in Sessions :
          /\ (apc[s] = "closeWrite" /\ apc'[s] # "closeWrite") =>
               /\ deepgramDone(s)'
               /\ Cardinality(LoopACloseFrames(s)') = 1
          /\ deepgramDone(s) =>
               /\ deepgramDone(s)'
               /\ WritesBy(clientOut'[s], "loopA") =
                    WritesBy(clientOut[s], "loopA")
          /\ (hpc[s] = "dgClose" /\ hpc'[s] # "dgClose") =>
               /\ clientCloses'[s] = clientCloses[s] + 1
               /\ deepgramDone(s)]_vars

\* Loop A's read failed, it wrote its close frame, and the handler then
\* closed the client connection in the branch of deepgramDone
C21_Witness ==
  \E s \in Sessions :
    /\ branch[s] = {"deepgramDone"}
    /\ hpc[s] = "returned"
    /\ Cardinality(LoopACloseFrames(s)) = 1
    /\ clientCloses[s] = 1

\* the handler of s has executed a branch of its select
TornDown(s) == hpc[s] \in {"delete", "returned"} /\ branch[s] # {}

C23_LoopAStopsOnWriteFailure ==
  [][\A s \in Sessions :
       /\ (apc[s] = "write" /\ apc'[s] # "write") =>
            /\ apc'[s] \in {"read", "done"}
            /\ clientCloses[s] > 0 => apc'[s] = "done"
            /\ LoopACloseFrames(s)' = {}
       /\ deepgramDone(s) =>
            /\ apc'[s] = "done"
            /\ deepgramIn'[s] = deepgramIn[s]
            /\ DataFrames(clientOut'[s], "loopA")
                 = DataFrames(clientOut[s], "loopA")
            /\ LoopACloseFrames(s)' = LoopACloseFrames(s)]_vars

\* Loop A has terminated on a failed data write: the last of its writes
\* is a data frame, and it wrote no close frame
C23_Witness ==
  \E s \in Sessions :
    /\ deepgramDone(s)
    /\ LoopACloseFrames(s) = {}
    /\ Len(DataFrames(clientOut[s], "loopA")) >= 1
    /\ clientCloses[s] > 0

DeepgramWriters(s) ==
  {w \in {"loopA", "loopB", "handler"} :
     \/ w = "loopB" /\ bpc[s] = "write"
     \/ w = "handler" /\ hpc[s] = "upWrite"}

\* C25: the writes on the client connection made by a forwarding loop are
\* Loop A's and the writes on the upstream connection are Loop B's or the
\* handler's; the handler writes its close frame to upstream only when
\* Loop B has terminated, and at no time are two writes on the upstream
\* connection in progress.
C25_UpstreamSingleWriter ==
  \A s \in Sessions :
    /\ Cardinality(DeepgramWriters(s)) <= 1
    /\ hpc[s] = "upWrite" => clientDone(s)
    /\ WritesBy(deepgramOut[s], "handler") # << >> => clientDone(s)
    /\ \A i \in DOMAIN deepgramOut[s] :
         deepgramOut[s][i].by \in {"loopB", "handler"}
    /\ \A i \in DOMAIN clientOut[s] : clientOut[s][i].by # "loopB"

\* the handler is writing its close frame to upstream after Loop B, which
\* had written a frame there, has terminated
C25_Witness ==
  \E s \in Sessions :
    /\ hpc[s] = "upWrite"
    /\ DeepgramWriters(s) = {"handler"}
    /\ WritesBy(deepgramOut[s], "loopB") # << >>

\* a step of session s: its handler or one of its loops moves
StepOf(s) == hpc'[s] # hpc[s] \/ apc'[s] # apc[s] \/ bpc'[s] # bpc[s]

\* what the program holds of session o
SessionState(o) ==
  << hpc[o], apc[o], bpc[o], aMsg[o], bMsg[o], clientOut[o], deepgramOut[o],
     clientCloses[o], deepgramCloses[o], deletes[o],
     o \in activeConnections >>

\* C26: a step of one session, a failed read or write and the teardown
\* that follows among them, leaves the handler, the loops, the
\* connections and the registry entry of every other session as they
\* were, touches no registry entry and no connection but its own, and
\* does not start the shutdown of the process.
C26_FailureStaysInSession ==
  [][\A s \in Sessions :
       StepOf(s) =>
         /\ \A o \in Sessions \ {s} : SessionState(o)' = SessionState(o)
         /\ activeConnections' \in
              {activeConnections, activeConnections \ {s},
               activeConnections \cup {s}}
         /\ spc' = spc /\ sConn' = sConn /\ visited' = visited]_vars

\* one session was torn down after a failure and the other is still
\* relaying: registered, both loops reading, both connections open
C26_Witness ==
  \E s \in Sessions, o \in Sessions :
    /\ s # o
    /\ hpc[s] = "returned" /\ branch[s] # {}
    /\ deletes[s] = 1 /\ s \notin activeConnections
    /\ hpc[o] = "select" /\ apc[o] = "read" /\ bpc[o] = "read"
    /\ o \in activeConnections
    /\ clientCloses[o] = 0 /\ deepgramCloses[o] = 0

\* a frame the loop of s has read is waiting to be written
InFlight(s) == apc[s] = "write" \/ bpc[s] = "write"

\* C27: under fair scheduling a frame that a forwarding loop has read is
\* eventually written to the other connection, whether or not the write
\* then fails; whenever no frame is waiting in a loop, the data frames
\* written to upstream are the frames read from the client and the data
\* frames written to the client are the frames read from upstream, type
\* tag and payload.
C27_FramesEventuallyForwarded ==
  /\ \A s \in Served : InFlight(s) ~> ~InFlight(s)
  /\ [](\A s \in Sessions :
          /\ bpc[s] # "write" =>
               DataFrames(deepgramOut[s], "loopB") = clientIn[s]
          /\ apc[s] # "write" =>
               DataFrames(clientOut[s], "loopA") = deepgramIn[s])

\* a binary frame went from the client to upstream and the same binary
\* frame came back from upstream to the client
C27_Witness ==
  \E s \in Sessions :
    /\ clientIn[s] = << [typ |-> BinaryMessage, data |-> "b"] >>
    /\ deepgramIn[s] = clientIn[s]
    /\ DataFrames(deepgramOut[s], "loopB") = clientIn[s]
    /\ DataFrames(clientOut[s], "loopA") = deepgramIn[s]
    /\ apc[s] = "read" /\ bpc[s] = "read"

\* ---------------------------------------------------------------- C28

AddCall(conn) == [op |-> "AddConnection", conn |-> conn]
RemoveCall(conn) == [op |-> "RemoveConnection", conn |-> conn]

\* the connections a log of calls added and did not remove afterwards
AddedNotRemoved(log) ==
  {c \in Conns :
     \E i \in DOMAIN log :
       /\ log[i] = AddCall(c)
       /\ \A j \in (i + 1)..Len(log) : log[j] # RemoveCall(c)}

\* the log before its last two calls
BeforeLastTwo(log) == SubSeq(log, 1, Len(log) - 2)

\* the log ends with AddConnection(c) followed by RemoveConnection(c)
EndsWithAddRemove(log, c) ==
  /\ Len(log) >= 2
  /\ log[Len(log) - 1] = AddCall(c)
  /\ log[Len(log)] = RemoveCall(c)

\* the keys of the map are the connections added and not removed
\* afterwards; a new manager has none
ManagerHoldsAddedNotRemoved ==
  /\ DOMAIN connections = AddedNotRemoved(calls)
  /\ \A k \in DOMAIN connections : connections[k]
  /\ calls = << >> => connections = NewWebSocketManager

\* C28 as stated: a new manager holds no connections, after any sequence
\* of AddConnection and RemoveConnection calls the map holds exactly the
\* connections added and not removed afterwards, and AddConnection(c)
\* followed by RemoveConnection(c) restores the set of before the two calls.
C28_AddThenRemoveRestores ==
  /\ ManagerHoldsAddedNotRemoved
  /\ \A c \in Conns :
       EndsWithAddRemove(calls, c) =>
         DOMAIN connections = AddedNotRemoved(BeforeLastTwo(calls))

\* C28, amended: a new manager holds no connections, and after any
\* sequence of AddConnection and RemoveConnection calls the map holds
\* exactly the connections added and not removed afterwards;
\* AddConnection(c) followed by RemoveConnection(c) restores the set of
\* before when c was not in it, and leaves that set without c when it was.
C28_ManagerIsASet ==
  /\ ManagerHoldsAddedNotRemoved
  /\ \A c \in Conns :
       EndsWithAddRemove(calls, c) =>
         DOMAIN connections = AddedNotRemoved(BeforeLastTwo(calls)) \ {c}

\* a connection already registered was added again and removed, while
\* another one stays registered
C28_Witness ==
  /\ calls = << AddCall(1), AddCall(2), AddCall(2), RemoveCall(2) >>
  /\ DOMAIN connections = {1}

\* ---------------------------------------------------------------- C29

\* the handler of c has registered the connection and has not yet taken
\* it out of the manager
WsServing(c) == wpc[c] \in {"hello", "read", "log", "remove"}

\* where the handler of c stands, against the manager and the connection
WsRegistered ==
  \A c \in Conns :
    /\ wpc[c] \in {"idle", "add", "failed"} =>
         /\ c \notin DOMAIN connections
         /\ wsOut[c] = EmptyBag
         /\ wsCloses[c] = 0
    /\ WsServing(c) /\ wsCloses[c] = 0 => c \in DOMAIN connections
    /\ wpc[c] \in {"close", "done"} => c \notin DOMAIN connections
    /\ wpc[c] = "done" => wsCloses[c] >= 1

\* what the handler of c does after the upgrade and after a failed read
WsSteps ==
  \A c \in Conns :
    /\ wpc[c] = "add" /\ wpc'[c] # "add" =>
         wpc'[c] = "hello" /\ c \in DOMAIN connections'
    /\ wpc[c] = "remove" /\ wpc'[c] # "remove" =>
         wpc'[c] = "close" /\ c \notin DOMAIN connections'
    /\ wpc[c] = "close" /\ wpc'[c] # "close" =>
         wpc'[c] = "done" /\ wsCloses'[c] = wsCloses[c] + 1
    /\ wpc[c] \in {"done", "failed"} => wpc'[c] = wpc[c]

\* C29: handleWebSocket registers the connection after a successful
\* upgrade, and it stays registered while the handler serves it unless a
\* Broadcast has closed it; when a read fails the handler removes the
\* connection from the manager, closes it and ends; a failed upgrade
\* registers nothing, writes nothing and closes nothing.
C29_HandleWebSocketLifecycle ==
  /\ []WsRegistered
  /\ [][WsSteps]_vars

\* one browser was served until its read failed, while the upgrade of
\* the other failed
C29_Witness ==
  \E c, d \in Conns :
    /\ wpc[c] = "done"
    /\ wsCloses[c] = 1
    /\ BagIn(Write("handleWebSocket", TextMessage, connectedMsg, 0),
             wsOut[c])
    /\ wpc[d] = "failed"
    /\ connections = NewWebSocketManager

\* ---------------------------------------------------------------- C30

\* the frame a Broadcast call of b writes: the marshalled message as text
BroadcastFrame(b) == Write(b, TextMessage, jsonMarshal(bcMsg[b]).data, 0)

\* the steps of the Broadcast call of b, against what Broadcast is to do
BroadcastContract(b) ==
  \* a write is one text frame with the marshalled message
  /\ bcpc[b] = "write" /\ bcpc'[b] # "write" =>
       wsOut' = [wsOut EXCEPT ![bcConn[b]] =
                   @ (+) SetToBag({BroadcastFrame(b)})]
  \* when the call returns from its loop it has written to every
  \* connection that was registered when it was called
  /\ bcpc[b] = "range" /\ bcpc'[b] = "idle" => bcAtCall[b] \subseteq bcSeen[b]
  \* a connection whose write failed is closed and removed, the others
  \* stay
  /\ bcpc[b] = "close" /\ bcpc'[b] # "close" =>
       wsCloses'[bcConn[b]] = wsCloses[bcConn[b]] + 1
  /\ bcpc[b] = "delete" /\ bcpc'[b] # "delete" =>
       DOMAIN connections' = DOMAIN connections \ {bcConn[b]}
  \* a message that cannot be marshalled: the call returns, nothing is
  \* sent, nothing is closed or removed, the process lives
  /\ bcpc[b] = "marshal" /\ jsonMarshal(bcMsg[b]).err /\ bcpc'[b] # "marshal" =>
       /\ bcpc'[b] = "idle"
       /\ UNCHANGED << wsOut, wsCloses, connections >>
       /\ ~fatal'

\* C30: Broadcast writes the message as one text frame to every
\* connection registered when it is called; a connection whose write
\* fails is closed and removed while the others stay registered; a
\* message that cannot be marshalled is dropped with nothing sent and no
\* crash.
C30_BroadcastReachesAllRegistered ==
  [][\A b \in Receivers : BroadcastContract(b)]_vars

\* ---------------------------------------------------------------- C31

\* C31: every channel the handler hands out through its getters is
\* drained by MyHandler.Run: a value sent on any of them is eventually
\* received, so no sender blocks for ever.
C31_EverySendReceived ==
  \A ch \in Channels \cap Followed : sending[ch] ~> ~sending[ch]

\* ---------------------------------------------------------------- C32

\* the channels followed that a goroutine of Run ranges over
FollowedRanged == Followed \cap Ranged

\* a receiver has exited only if its channel was closed, and Run has
\* returned only if every receiver has exited
ExitsOnlyOnClose ==
  /\ \A ch \in FollowedRanged : rpc[ch] = "done" => chClosed[ch]
  /\ runpc = "returned" => \A ch \in FollowedRanged : rpc[ch] = "done"

\* closing a channel moves no receiver
CloseMovesNoReceiver ==
  (\E ch \in Followed : ~chClosed[ch] /\ chClosed'[ch]) =>
    UNCHANGED << rpc, runpc, sending >>

\* C32: closing any subset of the channels makes exactly the receivers
\* of those channels exit, while the others keep receiving, and
\* MyHandler.Run returns once every channel it ranges over has been
\* closed.
C32_ClosingEndsReceivers ==
  /\ []ExitsOnlyOnClose
  /\ [][CloseMovesNoReceiver]_vars
  /\ \A ch \in FollowedRanged : chClosed[ch] ~> rpc[ch] = "done"
  /\ \A ch \in FollowedRanged : sending[ch] ~> ~sending[ch]
  /\ (\A ch \in FollowedRanged : chClosed[ch]) ~> runpc = "returned"

\* two channels are closed and their receivers have exited, while the
\* receiver of a third has taken a value sent after that
C32_Witness ==
  /\ chClosed["binaryChan"] /\ rpc["binaryChan"] = "done"
  /\ chClosed["openChan"] /\ rpc["openChan"] = "done"
  /\ ~chClosed["conversationTextResponse"]
  /\ rpc["conversationTextResponse"] = "handle"
  /\ ~chClosed["errorChan"] /\ rpc["errorChan"] = "recv"
  /\ runpc = "wait"

\* ---------------------------------------------------------------- C33

\* the error Loop A read carries no close code, or one outside 1000..4999
NoUsableCode(err) == err = NoCode \/ err \notin 1000..4999

\* C33: when Loop A's read from upstream fails with an error that carries
\* no close code, or with a close code outside 1000..4999, the close
\* frame it writes to the client carries 1000.
C33_NoCodeBecomesNormalClosure ==
  [][\A s \in Sessions :
       (apc[s] = "closeWrite" /\ apc'[s] # "closeWrite"
          /\ NoUsableCode(aMsg[s].err)) =>
         /\ clientOut'[s] =
              Append(clientOut[s], CloseFrame("loopA", CloseNormalClosure, ""))
         /\ CloseNormalClosure = 1000]_vars

\* Loop A has read a close error with code 5000 from an upstream that the
\* handler has not closed, and its close frame is being written
C33_Witness ==
  \E s \in Sessions :
    /\ apc[s] = "closeWrite"
    /\ aMsg[s].err = 5000
    /\ deepgramCloses[s] = 0
    /\ clientOut[s] = << >>

\* ---------------------------------------------------------------- C34

\* the positions of a handler that has returned: with 401, after a failed
\* upgrade, and after the failed dial or the teardown
Returned == {"unauthorized", "upgradeFailed", "returned"}

\* the handleVoiceAgent invocation of s is running
Running(s) == hpc[s] \notin Returned \cup {"idle"}

\* C34: a client connection is in activeConnections only while the
\* handleVoiceAgent invocation that created it is running, and on every
\* return path of the handler (401, failed upgrade, failed dial, either
\* teardown branch) the connection is absent from the registry when the
\* handler returns.
C34_NoRegistryLeak ==
  /\ [](\A s \in Sessions : s \in activeConnections => Running(s))
  /\ [][\A s \in Sessions :
          (Running(s) /\ hpc'[s] \in Returned) =>
            s \notin activeConnections']_vars

\* the handler of a session has returned through case <-clientDone after
\* taking its connection out of the registry
C34_Witness ==
  \E s \in Sessions :
    /\ hpc[s] = "returned"
    /\ branch[s] = {"clientDone"}
    /\ deletes[s] = 1
    /\ s \notin activeConnections

\* ---------------------------------------------------------------- C35

\* the client connection of s has been sent the going-away close frame by
\* gracefulShutdown and has been closed
ShutDownProperly(s) ==
  /\ GoingAwayFrames(clientOut[s]) # {}
  /\ clientCloses[s] >= 1

\* C35: no session escapes the shutdown broadcast: once the Range of
\* gracefulShutdown has ended, and when gracefulShutdown returns, every
\* client connection in the registry has been sent the going-away close
\* frame and closed; an upgrade racing with the shutdown cannot register
\* a session after the broadcast and be left open without a close frame.
C35_NoSessionEscapesShutdown ==
  (spc \in {"shutdown", "done"}) =>
    \A s \in activeConnections : ShutDownProperly(s)

\* the token the session of s was let in with is no longer valid
TokenExpired(s) ==
  ~validateToken(validProto[s].tok, appConfig.sessionSecret)

\* both forwarding goroutines of s are in their reads, on open connections
Forwarding(s) ==
  /\ Established(s)
  /\ apc[s] = "read" /\ deepgramCloses[s] = 0
  /\ bpc[s] = "read" /\ clientCloses[s] = 0

\* the part of the state that belongs to the proxy sessions
sessionVars == << handlerVars, loopAVars, loopBVars, registryVars, connVars,
                  clientOut, deepgramOut >>

\* C36: the token is checked at upgrade time only.  The accepted token is
\* chosen in the handler's check of lines 814-820 and never again; a step
\* in which the token of an established session stops being valid changes
\* nothing of any session; and a session whose token has expired still
\* forwards: both of its reads accept the next frame exactly as before.
C36_ExpiryLeavesSessionRunning ==
  /\ [][\A s \in Sessions :
          validProto'[s] # validProto[s] => hpc[s] = "auth"]_vars
  /\ [][(\E s \in Sessions :
           Established(s) /\ ~TokenExpired(s) /\ TokenExpired(s)')
          => UNCHANGED sessionVars]_vars
  /\ [](\A s \in Sessions :
          (Forwarding(s) /\ TokenExpired(s) /\ nframes < MaxFrames) =>
            /\ ENABLED (\E f \in Frames : LoopARead(s, f))
            /\ ENABLED (\E f \in Frames : LoopBRead(s, f)))

\* the token of a session has expired while both of its loops are reading
C36_Witness ==
  \E s \in Sessions :
    /\ Forwarding(s) /\ TokenExpired(s) /\ nframes < MaxFrames
    /\ validProto[s].tok = GoodToken /\ now >= GoodToken.exp

\* C37: every insert into and every delete from WebSocketManager.connections
\* happens under the exclusive lock, so in a step that changes the map no
\* Broadcast call holds the read lock, and no other Broadcast call is
\* ranging over the map.
C37_MutationsUnderExclusiveLock ==
  [][DOMAIN connections' # DOMAIN connections =>
       /\ mutex = {}
       /\ \A b \in Receivers : Ranging(b) = {}]_vars

\* the calls that are writing to the browser connection c: the WriteJSON of
\* handleWebSocket (lines 453-456) and the WriteMessage of each Broadcast
\* call (line 65)
Writers(c) ==
  {w \in {"handleWebSocket"} : wpc[c] = "hello"}
    \cup {b \in Receivers : bcpc[b] = "write" /\ bcConn[b] = c}

\* C38: a browser connection never has two writers at the same time.
C38_OneWriterPerConnection ==
  \A c \in Conns : Cardinality(Writers(c)) <= 1

====
